---- MODULE Spec2Model ----
(***************************************************************************)
(* PolyPixTagger (prototypes/proto_v6.py): the raster label-mask engine.   *)
(*                                                                         *)
(* The model covers the index mask of every layer, the circular paint and  *)
(* erase dabs, the stroke controller (resampling of a pointer segment into *)
(* dabs), the tile based stroke recorder, the undo command it builds, the  *)
(* undo stack, the category / entity / layer operations of the main        *)
(* window and the category part of the project codec.                      *)
(*                                                                         *)
(* A mask is a function from pixels <<x, y>> to bytes.  The program        *)
(* addresses the byte of pixel (x, y) as y * bytesPerLine + x; the padding *)
(* bytes of a row are never read as pixels and are left out.               *)
(* Of a display surface (QGraphicsPixmapItem) the model holds whether it   *)
(* is visible and the pixels last pushed into it.                          *)
(* Entity fields name, props, x and y and the category field name are read *)
(* by probe_at only and appear in its calls only.                          *)
(***************************************************************************)
EXTENDS Integers, Sequences, FiniteSets, TLC

(***************************************************************************)
(* Bounds of the model.                                                    *)
(***************************************************************************)
\* Image size.  The image is wider than one tile and not a multiple of it,
\* so that a stroke can touch several tiles and one of them is clamped.
ImgW == 3
ImgH == 2
\* _StrokeMaskRecorder is parametric in its tile edge (tile_size); the main
\* window instantiates it with 128, the model with TileSize.
TileSize == 2
\* Radii offered by the spin boxes (the program offers 1..100).
MaxRadius == 2
\* new_id() is drawn at most this many times per kind of object.
MaxLayers == 2
MaxCats == 2
MaxEnts == 1
\* Strokes per run, and pointer moves per stroke.
MaxStrokes == 2
MaxMoves == 1
\* Categories in a project file given to dict_to_project.
MaxFileCats == 3

\* Optional[...] = None
NoneId == 0

Max(a, b) == IF a >= b THEN a ELSE b
Min(a, b) == IF a <= b THEN a ELSE b
Abs(a) == IF a >= 0 THEN a ELSE -a

Pixels(w, h) == (0 .. w - 1) \X (0 .. h - 1)
Bytes == 0 .. MaxCats

(***************************************************************************)
(* QtCore.QRect(x, y, w, h): left, top, width, height.                     *)
(***************************************************************************)
QRect(x, y, w, h) == [x |-> x, y |-> y, w |-> w, h |-> h]
NullRect == QRect(0, 0, 0, 0)
left(r) == r.x
top(r) == r.y
right(r) == r.x + r.w - 1
bottom(r) == r.y + r.h - 1
isEmpty(r) == r.w <= 0 \/ r.h <= 0
isNull(r) == r.w = 0 /\ r.h = 0

\* QRect.intersected: the null rect when either is null or they do not overlap.
intersected(a, b) ==
    LET l == Max(left(a), left(b))
        t == Max(top(a), top(b))
        rr == Min(right(a), right(b))
        bb == Min(bottom(a), bottom(b))
    IN  IF isEmpty(a) \/ isEmpty(b) \/ l > rr \/ t > bb
        THEN NullRect
        ELSE QRect(l, t, rr - l + 1, bb - t + 1)

\* QRect.united: the bounding rectangle; a null operand yields the other.
united(a, b) ==
    LET l == Min(left(a), left(b))
        t == Min(top(a), top(b))
        rr == Max(right(a), right(b))
        bb == Max(bottom(a), bottom(b))
    IN  IF isNull(a) THEN b
        ELSE IF isNull(b) THEN a
        ELSE QRect(l, t, rr - l + 1, bb - t + 1)

clamp_rect_to_image(rect, w, h) == intersected(rect, QRect(0, 0, w, h))

InRect(p, r) == p[1] >= left(r) /\ p[1] <= right(r) /\ p[2] >= top(r) /\ p[2] <= bottom(r)

(***************************************************************************)
(* The dabs of the stroke controller.  Each returns the new mask bytes     *)
(* and the rectangle the dab reports.                                      *)
(***************************************************************************)
\* Faulty variant of DabBox: x1 and y1 are not clamped to the image.
DabBoxUnclamped(w, h, x, y, r) ==
    [x0 |-> Max(0, x - r), x1 |-> x + r,
     y0 |-> Max(0, y - r), y1 |-> y + r]

\* The iteration box of a dab: range(y0, y1 + 1) x range(x0, x1 + 1).
DabBox(w, h, x, y, r) ==
    [x0 |-> Max(0, x - r), x1 |-> Min(w - 1, x + r),
     y0 |-> Max(0, y - r), y1 |-> Min(h - 1, y + r)]

InBox(p, b) == p[1] >= b.x0 /\ p[1] <= b.x1 /\ p[2] >= b.y0 /\ p[2] <= b.y1

\* Faulty variant of _dab_set_index: "<" in place of "<=" in the circle test.
_dab_set_index_strict(mbytes, w, h, x, y, r, idx) ==
    [mask |-> [p \in DOMAIN mbytes |->
                 IF (p[1] - x) * (p[1] - x) + (p[2] - y) * (p[2] - y) < r * r
                 THEN idx
                 ELSE mbytes[p]],
     rect |-> QRect(Max(0, x - r), Max(0, y - r),
                    Min(w - 1, x + r) - Max(0, x - r) + 1,
                    Min(h - 1, y + r) - Max(0, y - r) + 1)]

_dab_set_index(mbytes, w, h, x, y, r, idx) ==
    LET b == DabBox(w, h, x, y, r)
        rr == r * r
    IN  [mask |-> [p \in DOMAIN mbytes |->
                     IF InBox(p, b)
                        /\ (p[1] - x) * (p[1] - x) + (p[2] - y) * (p[2] - y) <= rr
                     THEN idx
                     ELSE mbytes[p]],
         rect |-> QRect(b.x0, b.y0, b.x1 - b.x0 + 1, b.y1 - b.y0 + 1)]

\* Faulty variant of ErasedByte: the mode is ignored, every nonzero byte is
\* cleared.
ErasedByteAnyMode(cur, mode, selected_idx) == IF cur # 0 THEN 0 ELSE cur

\* Faulty variant of ErasedByte: a nonzero byte is lowered by one, whatever
\* the mode.
ErasedByteLowered(cur, mode, selected_idx) == IF cur # 0 THEN cur - 1 ELSE cur

\* The byte an erase dab leaves at a pixel inside the circle.
ErasedByte(cur, mode, selected_idx) ==
    IF mode = "erase_all"
    THEN (IF cur # 0 THEN 0 ELSE cur)
    ELSE IF mode = "erase_only_category"
    THEN (IF selected_idx # NoneId /\ cur = selected_idx THEN 0 ELSE cur)
    ELSE IF mode = "erase_all_but_category"
    THEN (IF selected_idx # NoneId /\ cur # 0 /\ cur # selected_idx THEN 0 ELSE cur)
    ELSE cur

_dab_erase(mbytes, w, h, x, y, r, mode, selected_idx) ==
    LET b == DabBox(w, h, x, y, r)
        rr == r * r
    IN  [mask |-> [p \in DOMAIN mbytes |->
                     IF InBox(p, b)
                        /\ ~((p[1] - x) * (p[1] - x) + (p[2] - y) * (p[2] - y) > rr)
                     THEN ErasedByte(mbytes[p], mode, selected_idx)
                     ELSE mbytes[p]],
         rect |-> QRect(b.x0, b.y0, b.x1 - b.x0 + 1, b.y1 - b.y0 + 1)]

(***************************************************************************)
(* EditService.paint_at and erase_at on the mask bytes of the current      *)
(* layer: idx is the index of the selected category, or None when there is *)
(* no current layer or no such category.  NoRect stands for the result     *)
(* None.                                                                   *)
(***************************************************************************)
NoRect == [none |-> TRUE]

paint_at(mbytes, w, h, x, y, r, idx) ==
    LET x0 == Max(0, x - r)
        x1 == Min(w - 1, x + r)
        y0 == Max(0, y - r)
        y1 == Min(h - 1, y + r)
        rr == r * r
    IN  IF idx = NoneId \/ r <= 0
        THEN [mask |-> mbytes, rect |-> NoRect]
        ELSE [mask |-> [p \in DOMAIN mbytes |->
                          IF /\ y0 <= p[2] /\ p[2] <= y1 /\ x0 <= p[1] /\ p[1] <= x1
                             /\ (p[1] - x) * (p[1] - x) + (p[2] - y) * (p[2] - y) <= rr
                          THEN idx
                          ELSE mbytes[p]],
              rect |-> QRect(x0, y0, x1 - x0 + 1, y1 - y0 + 1)]

erase_at(mbytes, w, h, x, y, r, mode, selected_idx) ==
    LET x0 == Max(0, x - r)
        x1 == Min(w - 1, x + r)
        y0 == Max(0, y - r)
        y1 == Min(h - 1, y + r)
        rr == r * r
        erased(cur) ==
            IF mode = "erase_all" THEN (IF cur # 0 THEN 0 ELSE cur)
            ELSE IF mode = "erase_only_category"
            THEN (IF cur = selected_idx THEN 0 ELSE cur)
            ELSE IF mode = "erase_all_but_category"
            THEN (IF cur # 0 /\ cur # selected_idx THEN 0 ELSE cur)
            ELSE cur
    IN  IF r <= 0
        THEN [mask |-> mbytes, rect |-> NoRect]
        ELSE IF mode \in {"erase_only_category", "erase_all_but_category"}
                /\ selected_idx = NoneId
        THEN [mask |-> mbytes, rect |-> NoRect]
        ELSE [mask |-> [p \in DOMAIN mbytes |->
                          IF /\ y0 <= p[2] /\ p[2] <= y1 /\ x0 <= p[1] /\ p[1] <= x1
                             /\ ~((p[1] - x) * (p[1] - x) + (p[2] - y) * (p[2] - y) > rr)
                          THEN erased(mbytes[p])
                          ELSE mbytes[p]],
              rect |-> QRect(x0, y0, x1 - x0 + 1, y1 - y0 + 1)]

(***************************************************************************)
(* Resampling of a pointer segment (x0, y0) -> (x1, y1) into dab centres.  *)
(* step = max(1.0, r * 0.5) = max(2, r) / 2, so int(dist / step) is the    *)
(* largest k with (k * max(2, r))^2 <= 4 * dist^2.                         *)
(***************************************************************************)
\* Faulty variant of SegmentSteps: half as many steps.
SegmentStepsHalved(dx, dy, r) ==
    LET d2 == dx * dx + dy * dy
        m == Max(2, r)
        k == CHOOSE j \in 0 .. 2 * (Abs(dx) + Abs(dy)) :
                 /\ (j * m) * (j * m) <= 4 * d2
                 /\ ((j + 1) * m) * ((j + 1) * m) > 4 * d2
    IN  Max(1, k \div 2)

SegmentSteps(dx, dy, r) ==
    LET d2 == dx * dx + dy * dy
        m == Max(2, r)
        k == CHOOSE j \in 0 .. 2 * (Abs(dx) + Abs(dy)) :
                 /\ (j * m) * (j * m) <= 4 * d2
                 /\ ((j + 1) * m) * ((j + 1) * m) > 4 * d2
    IN  Max(1, k)

\* Faulty variant of RoundHalfEven: the fraction is cut off.
RoundDown(num, den) == num \div den

\* Python's int(round(num / den)) for den > 0: round half to even.
RoundHalfEven(num, den) ==
    LET q == num \div den
        rem2 == 2 * (num - q * den)
    IN  IF rem2 < den THEN q
        ELSE IF rem2 > den THEN q + 1
        ELSE IF q % 2 = 0 THEN q ELSE q + 1

SegmentPoints(x0, y0, x1, y1, r) ==
    LET dx == x1 - x0
        dy == y1 - y0
        n == SegmentSteps(dx, dy, r)
    IN  IF dx = 0 /\ dy = 0
        THEN << <<x0, y0>> >>
        ELSE [i \in 1 .. n + 1 |->
                <<RoundHalfEven(x0 * n + dx * (i - 1), n),
                  RoundHalfEven(y0 * n + dy * (i - 1), n)>>]

(***************************************************************************)
(* OverlayRenderer: the colour table of a layer.  A colour is the tuple    *)
(* (r, g, b, a) of a category; bytes((r, g, b, a)) holds the same four     *)
(* numbers.  A table is a list of LutSize colours; it is kept as the       *)
(* assignments lut[c.index] = colour made, in order, to the list of        *)
(* transparent entries, and lut_at reads an entry of it.  The attribute    *)
(* _lut_rgba of a layer is the table cached, or NoLut when the layer has   *)
(* no such attribute.                                                      *)
(***************************************************************************)
\* [b"\x00\x00\x00\x00"] * 256
LutSize == 256
Transparent == <<0, 0, 0, 0>>
\* QColor(50, 200, 50, 140), the colour add_category proposes and falls back
\* to, and another colour picked in the dialog.
DefaultColor == <<50, 200, 50, 140>>
OpaqueRed == <<255, 0, 0, 255>>
Colors == {DefaultColor, OpaqueRed}

NoLut == [none |-> TRUE]

\* lut[i] for 0 <= i < LutSize.
lut_at(lut, i) ==
    LET S == {k \in 1 .. Len(lut.assigned) : lut.assigned[k].index = i}
    IN  IF S = {}
        THEN Transparent
        ELSE lut.assigned[CHOOSE k \in S : \A j \in S : j <= k].color

\* Faulty variant of invalidate_lut: the cached table is kept.
invalidate_lut_kept(lut) == lut

\* delattr(layer, "_lut_rgba")
invalidate_lut(lut) == NoLut

\* The table category_lut_rgba returns and leaves cached: the cached one if
\* there is one, otherwise a new one in which every category of the list,
\* in order, has stored its colour at its index.
category_lut_rgba(lut, cats) ==
    IF lut # NoLut
    THEN lut
    ELSE [assigned |-> [k \in 1 .. Len(cats) |->
                           [index |-> cats[k].index, color |-> cats[k].color]]]

(***************************************************************************)
(* Images and their persisted form.  A runtime image of w x h pixels is a  *)
(* function on Pixels(w, h); the image a layer does not have yet is the    *)
(* function on no pixel (as is a null QImage).  An overlay image is        *)
(* [w, h, px], px a function from the pixels to colours, or NoImage.       *)
(* The field mask_index_png_b64 of a layer is NoB64 (None), or what the    *)
(* string decodes to: a PNG of a w x h grayscale image, bytes that are no  *)
(* image, or nothing because the string is no base64 text.                 *)
(***************************************************************************)
NoB64 == [kind |-> "none"]
NotPng == [kind |-> "not_png"]
BadPadding == [kind |-> "bad_padding"]
NoImage == [none |-> TRUE]

ImageWidth(img) == IF DOMAIN img = {} THEN 0 ELSE 1 + CHOOSE x \in {p[1] : p \in DOMAIN img} :
                                                      \A p \in DOMAIN img : p[1] <= x
ImageHeight(img) == IF DOMAIN img = {} THEN 0 ELSE 1 + CHOOSE y \in {p[2] : p \in DOMAIN img} :
                                                       \A p \in DOMAIN img : p[2] <= y

\* qimage_to_png_base64 of a Grayscale8 image.
qimage_to_png_base64(img) ==
    [kind |-> "png", w |-> ImageWidth(img), h |-> ImageHeight(img),
     bytes |-> [i \in 1 .. ImageWidth(img) * ImageHeight(img) |->
                   img[<<(i - 1) % ImageWidth(img), (i - 1) \div ImageWidth(img)>>]]]

\* png_base64_to_qimage: base64.b64decode raises binascii.Error on a string
\* that is no base64 text; loadFromData leaves the image null on bytes that
\* are not a PNG.
png_base64_to_qimage(s) ==
    IF s.kind = "bad_padding"
    THEN [raised |-> TRUE, img |-> << >>]
    ELSE IF s.kind = "png"
    THEN [raised |-> FALSE,
          img |-> [p \in Pixels(s.w, s.h) |-> s.bytes[p[2] * s.w + p[1] + 1]]]
    ELSE [raised |-> FALSE, img |-> << >>]

\* MaskStore.ensure_layer_index_mask on a layer with runtime mask img and
\* stored mask b64, for a project image of w x h: the mask it returns and
\* leaves in mask_index_img, or raised when the decoding raises (the layer
\* is then left as it was).
ensure_layer_index_mask(img, b64, w, h) ==
    LET loaded == png_base64_to_qimage(b64)
    IN  IF DOMAIN img # {} /\ DOMAIN img = Pixels(w, h)
        THEN [raised |-> FALSE, mask |-> img]
        ELSE IF b64 # NoB64 /\ loaded.raised
        THEN [raised |-> TRUE, mask |-> img]
        ELSE IF b64 # NoB64 /\ DOMAIN loaded.img # {} /\ DOMAIN loaded.img = Pixels(w, h)
        THEN [raised |-> FALSE, mask |-> loaded.img]
        ELSE [raised |-> FALSE, mask |-> [p \in Pixels(w, h) |-> 0]]

\* OverlayRenderer.ensure_layer_overlay_image.
ensure_layer_overlay_image(rgba, w, h) ==
    IF rgba # NoImage /\ rgba.w = w /\ rgba.h = h /\ w > 0 /\ h > 0
    THEN rgba
    ELSE [w |-> w, h |-> h, px |-> [p \in Pixels(w, h) |-> Transparent]]

(***************************************************************************)
(* OverlayRenderer: compositing, throttled pushes and visibility.  The     *)
(* operators work on p, the project                                        *)
(*   [image_path, image_width, image_height, layers, categories, b64],     *)
(* and on rs, the runtime attributes of the layers and the renderer state  *)
(*   [mask, lut, overlay, items, pending, rects, timer]:                   *)
(* mask, lut, overlay are mask_index_img, _lut_rgba and overlay_rgba_img   *)
(* by layer id; items is layer_overlay_items, NoItem or [visible, pixmap]  *)
(* by layer id; pending and rects are _pending_layers and _pending_rects   *)
(* (NoRect for a layer without entry); timer is _flush_timer.isActive().   *)
(* Each operator yields the rs its method leaves.                          *)
(***************************************************************************)
NoItem == [none |-> TRUE]

\* Faulty variant of _schedule_pixmap_flush: the timer is not started.
_schedule_pixmap_flush_unarmed(rs, lid, dirty_rect) ==
    [rs EXCEPT !.pending = @ \cup {lid},
               !.rects[lid] = IF @ = NoRect THEN dirty_rect ELSE united(@, dirty_rect)]

_schedule_pixmap_flush(rs, lid, dirty_rect) ==
    [rs EXCEPT !.pending = @ \cup {lid},
               !.rects[lid] = IF @ = NoRect THEN dirty_rect ELSE united(@, dirty_rect),
               !.timer = TRUE]

\* QPixmap.fromImage(overlay_img) copies the pixels; an item the scene
\* creates is visible.
_push_pixmap_for_layer(p, rs, layer) ==
    IF ~p.image_path \/ rs.overlay[layer] = NoImage
    THEN rs
    ELSE IF rs.items[layer] = NoItem
    THEN [rs EXCEPT !.items[layer] = [visible |-> TRUE, pixmap |-> rs.overlay[layer]]]
    ELSE [rs EXCEPT !.items[layer].pixmap = rs.overlay[layer]]

\* Faulty variant of flush_now: the pending entry of the layer is kept.
flush_now_keeping(p, rs, layer) == _push_pixmap_for_layer(p, rs, layer)

\* flush_now(layer), layer given.
flush_now(p, rs, layer) ==
    LET pushed == _push_pixmap_for_layer(p, rs, layer)
    IN  [pushed EXCEPT !.pending = @ \ {layer}, !.rects[layer] = NoRect]

RECURSIVE PushAll(_, _, _)
PushAll(p, rs, lids) ==
    IF lids = {}
    THEN rs
    ELSE LET lid == CHOOSE l \in lids : TRUE
         IN  PushAll(p, _push_pixmap_for_layer(p, rs, lid), lids \ {lid})

\* Faulty variant of _flush_pending_pixmaps: the pending set is cleared and
\* nothing is pushed.
_flush_pending_pixmaps_dropping(p, rs) ==
    [rs EXCEPT !.pending = {}, !.rects = [l \in DOMAIN rs.rects |-> NoRect]]

\* The timer callback.  The layers pushed are those of the pending set that
\* the project still holds.
_flush_pending_pixmaps(p, rs) ==
    IF rs.pending = {}
    THEN rs
    ELSE PushAll(p,
                 [rs EXCEPT !.pending = {}, !.rects = [l \in DOMAIN rs.rects |-> NoRect]],
                 {lid \in rs.pending : \E i \in 1 .. Len(p.layers) : p.layers[i] = lid})

\* Faulty variant of update_layer_overlay: the dirty rect is not clamped to
\* the image before it is tested and recorded.
update_layer_overlay_unclamped(p, rs, layer, dirty_rect) ==
    LET m == ensure_layer_index_mask(rs.mask[layer], p.b64[layer],
                                     p.image_width, p.image_height).mask
        overlay == ensure_layer_overlay_image(rs.overlay[layer],
                                              p.image_width, p.image_height)
        lut == category_lut_rgba(rs.lut[layer], p.categories[layer])
    IN  IF ~p.image_path
        THEN rs
        ELSE _schedule_pixmap_flush(
                 [rs EXCEPT !.mask[layer] = m,
                            !.lut[layer] = lut,
                            !.overlay[layer] =
                                [overlay EXCEPT !.px = [q \in DOMAIN overlay.px |->
                                    IF InRect(q, dirty_rect)
                                    THEN lut_at(lut, m[q])
                                    ELSE overlay.px[q]]]],
                 layer, dirty_rect)

\* OverlayRenderer.update_layer_overlay(layer, dirty_rect).
update_layer_overlay(p, rs, layer, dirty_rect) ==
    LET m == ensure_layer_index_mask(rs.mask[layer], p.b64[layer],
                                     p.image_width, p.image_height).mask
        overlay == ensure_layer_overlay_image(rs.overlay[layer],
                                              p.image_width, p.image_height)
        dr == clamp_rect_to_image(dirty_rect, p.image_width, p.image_height)
        lut == category_lut_rgba(rs.lut[layer], p.categories[layer])
    IN  IF ~p.image_path
        THEN rs
        ELSE IF isEmpty(dr)
        THEN [rs EXCEPT !.mask[layer] = m, !.overlay[layer] = overlay]
        ELSE _schedule_pixmap_flush(
                 [rs EXCEPT !.mask[layer] = m,
                            !.lut[layer] = lut,
                            !.overlay[layer] =
                                [overlay EXCEPT !.px = [q \in DOMAIN overlay.px |->
                                    IF InRect(q, dr)
                                    THEN lut_at(lut, m[q])
                                    ELSE overlay.px[q]]]],
                 layer, dr)

hide_all_overlays(rs) ==
    [rs EXCEPT !.items = [l \in DOMAIN rs.items |->
                            IF rs.items[l] = NoItem THEN NoItem
                            ELSE [rs.items[l] EXCEPT !.visible = FALSE]]]

\* OverlayRenderer.show_layer_overlay(layer); layer = NoneId for None.  The
\* two ensure_ calls of the branch for a layer without overlay image are
\* repeated by update_layer_overlay, which is where they are modelled.
show_layer_overlay(p, rs, layer) ==
    LET hidden == hide_all_overlays(rs)
        built == IF hidden.overlay[layer] = NoImage
                 THEN update_layer_overlay(p, hidden, layer,
                                           QRect(0, 0, p.image_width, p.image_height))
                 ELSE hidden
        pushed == IF built.items[layer] = NoItem
                  THEN _push_pixmap_for_layer(p, built, layer)
                  ELSE built
        shown == IF pushed.items[layer] = NoItem THEN pushed
                 ELSE [pushed EXCEPT !.items[layer].visible = TRUE]
    IN  IF layer = NoneId \/ ~p.image_path THEN hidden ELSE flush_now(p, shown, layer)

\* OverlayRenderer.clear_overlay_items.
clear_overlay_items(rs) ==
    [rs EXCEPT !.timer = FALSE,
               !.pending = {},
               !.rects = [l \in DOMAIN rs.rects |-> NoRect],
               !.items = [l \in DOMAIN rs.items |-> NoItem]]

(***************************************************************************)
(* _StrokeMaskRecorder.  Its state is a record                             *)
(*   [layer_id, tiles_before, tiles_rect, dirty_union]                     *)
(* where tiles_before and tiles_rect are functions on the captured tile    *)
(* keys <<tx, ty>>, tile bytes are packed row-major sequences, and         *)
(* dirty_union = NullRect stands for None (a rect united into it is never  *)
(* empty).                                                                 *)
(***************************************************************************)
NoTiles == [k \in {} |-> 0]

NewRecorder ==
    [layer_id |-> NoneId, tiles_before |-> NoTiles, tiles_rect |-> NoTiles,
     dirty_union |-> NullRect]

begin(layer_id) ==
    [layer_id |-> layer_id, tiles_before |-> NoTiles, tiles_rect |-> NoTiles,
     dirty_union |-> NullRect]

is_active(rec) == rec.layer_id # NoneId

_tile_rect(tx, ty, w, h) ==
    clamp_rect_to_image(QRect(tx * TileSize, ty * TileSize, TileSize, TileSize), w, h)

_copy_rect_bytes(mask, rect) ==
    IF isEmpty(rect)
    THEN << >>
    ELSE [i \in 1 .. rect.w * rect.h |->
            mask[<<left(rect) + ((i - 1) % rect.w), top(rect) + ((i - 1) \div rect.w)>>]]

\* The length check of _write_rect_bytes (it raises ValueError when it fails).
rect_bytes_length_ok(rect, data) == Len(data) = rect.w * rect.h

_write_rect_bytes(mask, rect, data) ==
    IF isEmpty(rect)
    THEN mask
    ELSE [p \in DOMAIN mask |->
            IF InRect(p, rect)
            THEN data[(p[2] - top(rect)) * rect.w + (p[1] - left(rect)) + 1]
            ELSE mask[p]]

\* The tile keys a clamped rect overlaps.
TileKeys(rect) ==
    ((left(rect) \div TileSize) .. (right(rect) \div TileSize))
        \X ((top(rect) \div TileSize) .. (bottom(rect) \div TileSize))

\* Faulty variant of capture_before_for_rect: the "if key in tiles_before:
\* continue" test is missing, so a tile the rect overlaps again is recaptured.
capture_before_recapturing(rec, mask, rect0, img_w, img_h) ==
    LET rect == clamp_rect_to_image(rect0, img_w, img_h)
        keys == TileKeys(rect)
        all == DOMAIN rec.tiles_before \cup keys
    IN  IF isEmpty(rect)
        THEN rec
        ELSE [rec EXCEPT
                !.dirty_union = IF rec.dirty_union = NullRect THEN rect
                                ELSE united(rec.dirty_union, rect),
                !.tiles_rect = [k \in all |->
                    IF k \in keys
                    THEN _tile_rect(k[1], k[2], img_w, img_h)
                    ELSE rec.tiles_rect[k]],
                !.tiles_before = [k \in all |->
                    IF k \in keys
                    THEN _copy_rect_bytes(mask, _tile_rect(k[1], k[2], img_w, img_h))
                    ELSE rec.tiles_before[k]]]

capture_before_for_rect(rec, mask, rect0, img_w, img_h) ==
    LET rect == clamp_rect_to_image(rect0, img_w, img_h)
        keys == TileKeys(rect)
        all == DOMAIN rec.tiles_before \cup keys
    IN  IF isEmpty(rect)
        THEN rec
        ELSE [rec EXCEPT
                !.dirty_union = IF rec.dirty_union = NullRect THEN rect
                                ELSE united(rec.dirty_union, rect),
                !.tiles_rect = [k \in all |->
                    IF k \in DOMAIN rec.tiles_before
                    THEN rec.tiles_rect[k]
                    ELSE _tile_rect(k[1], k[2], img_w, img_h)],
                !.tiles_before = [k \in all |->
                    IF k \in DOMAIN rec.tiles_before
                    THEN rec.tiles_before[k]
                    ELSE _copy_rect_bytes(mask, _tile_rect(k[1], k[2], img_w, img_h))]]

(***************************************************************************)
(* MaskTilesUndoCommand: [kind, layer_id, tiles_rect, tiles_before,        *)
(* tiles_after, dirty_rect].  NoCommand is build_command's None.           *)
(***************************************************************************)
NoCommand == [kind |-> "none"]

\* Faulty variant of build_command: the "if not any_change: return None" test
\* is missing.
build_command_unchanged_too(rec, mask, img_w, img_h) ==
    LET tiles_after == [k \in DOMAIN rec.tiles_before |->
                            _copy_rect_bytes(mask, rec.tiles_rect[k])]
        dirty == IF rec.dirty_union = NullRect
                 THEN QRect(0, 0, img_w, img_h)
                 ELSE rec.dirty_union
    IN  IF ~is_active(rec) \/ DOMAIN rec.tiles_before = {}
        THEN NoCommand
        ELSE [kind |-> "cmd",
              layer_id |-> rec.layer_id,
              tiles_rect |-> rec.tiles_rect,
              tiles_before |-> rec.tiles_before,
              tiles_after |-> tiles_after,
              dirty_rect |-> clamp_rect_to_image(dirty, img_w, img_h)]

build_command(rec, mask, img_w, img_h) ==
    LET tiles_after == [k \in DOMAIN rec.tiles_before |->
                            _copy_rect_bytes(mask, rec.tiles_rect[k])]
        any_change == \E k \in DOMAIN rec.tiles_before :
                            tiles_after[k] # rec.tiles_before[k]
        dirty == IF rec.dirty_union = NullRect
                 THEN QRect(0, 0, img_w, img_h)
                 ELSE rec.dirty_union
    IN  IF ~is_active(rec) \/ DOMAIN rec.tiles_before = {}
        THEN NoCommand
        ELSE IF ~any_change
        THEN NoCommand
        ELSE [kind |-> "cmd",
              layer_id |-> rec.layer_id,
              tiles_rect |-> rec.tiles_rect,
              tiles_before |-> rec.tiles_before,
              tiles_after |-> tiles_after,
              dirty_rect |-> clamp_rect_to_image(dirty, img_w, img_h)]

\* The tile writes of MaskTilesUndoCommand._apply(which) on the layer's mask.
\* The tile rects of one command are pairwise disjoint, so the order of the
\* writes does not matter.
RECURSIVE WriteTiles(_, _, _, _)
WriteTiles(mask, cmd, which, keys) ==
    IF keys = {}
    THEN mask
    ELSE LET key == CHOOSE k \in keys : TRUE
             data == IF which = "before" THEN cmd.tiles_before[key]
                     ELSE cmd.tiles_after[key]
         IN  WriteTiles(_write_rect_bytes(mask, cmd.tiles_rect[key], data),
                        cmd, which, keys \ {key})

\* Faulty variant of _apply: the loop over the tiles stops after one tile.
_apply_one_tile(mask, cmd, which) ==
    LET key == CHOOSE k \in DOMAIN cmd.tiles_rect : TRUE
    IN  WriteTiles(mask, cmd, which, {key})

_apply(mask, cmd, which) == WriteTiles(mask, cmd, which, DOMAIN cmd.tiles_rect)

(***************************************************************************)
(* State.                                                                  *)
(***************************************************************************)
VARIABLES
    \* Project
    image_path,           \* TRUE when the project has an image
    image_width,
    image_height,
    layers,               \* the layer ids, in project order
    categories,           \* layer id -> sequence of [id, index, color]
    entities,             \* layer id -> sequence of [id, category_id]
    mask,                 \* layer id -> mask_index_img
    _lut_rgba,            \* layer id -> the attribute _lut_rgba of the layer
    overlay_rgba_img,     \* layer id -> overlay_rgba_img, or NoImage
    mask_index_png_b64,   \* layer id -> the stored mask, or NoB64
    \* OverlayRenderer
    layer_overlay_items,  \* layer id -> [visible, pixmap], or NoItem
    _pending_layers,
    _pending_rects,       \* layer id -> rect, or NoRect
    _flush_timer,         \* _flush_timer.isActive()
    \* AppState
    current_layer_id,
    current_category_id,
    current_entity_id,
    tool_mode,
    brush_radius,
    erase_radius,
    erase_mode,
    \* PixTagMainWindow
    _stroke_active,
    _stroke_last,
    _stroke_rec,
    undo_stack,           \* QUndoStack: [cmds, index]
    ids,                  \* new_id() draws so far: [layer, category, entity]
    \* History variables, read by no action
    last_op,              \* the handler that ran last ("other" for a handler that
                          \* changes the tool state or the category / entity selection;
                          \* "delete_category_used" for a deletion that cleared pixels
                          \* and detached an entity)
    h_start,              \* every layer's mask when the running stroke started
    h_undo,               \* per command of undo_stack.cmds: [pre_mask, post_mask]
    n_strokes,
    n_moves,
    \* A call of a pure function and its result
    call,
    ret

image_vars == <<image_path, image_width, image_height, mask_index_png_b64>>
project_vars == <<image_vars, layers, categories, entities, mask, _lut_rgba>>
render_vars == <<overlay_rgba_img, layer_overlay_items, _pending_layers, _pending_rects,
                 _flush_timer>>
selection_vars == <<current_layer_id, current_category_id, current_entity_id>>
tool_vars == <<tool_mode, brush_radius, erase_radius, erase_mode>>
stroke_vars == <<_stroke_active, _stroke_last, _stroke_rec>>
history_vars == <<h_start, h_undo, n_strokes, n_moves>>
call_vars == <<call, ret>>
vars == <<project_vars, render_vars, selection_vars, tool_vars, stroke_vars, undo_stack, ids,
          last_op, history_vars, call_vars>>

LayerIds == 1 .. MaxLayers
BlankMask(w, h) == [p \in Pixels(w, h) |-> 0]
ToolModes == {"pan", "brush", "erase"}
EraseModes == {"erase_all", "erase_only_category", "erase_all_but_category"}
NoPoint == << >>
NoCall == [fn |-> "none"]
NoRet == [fn |-> "none"]

\* The project and the renderer state the operators of OverlayRenderer work
\* on, and the assignment of the state one of them yields.
Project ==
    [image_path |-> image_path, image_width |-> image_width, image_height |-> image_height,
     layers |-> layers, categories |-> categories, b64 |-> mask_index_png_b64]

Renderer ==
    [mask |-> mask, lut |-> _lut_rgba, overlay |-> overlay_rgba_img,
     items |-> layer_overlay_items, pending |-> _pending_layers, rects |-> _pending_rects,
     timer |-> _flush_timer]

Renders(rs) ==
    \E left_ \in {rs} :
        /\ mask' = left_.mask
        /\ _lut_rgba' = left_.lut
        /\ overlay_rgba_img' = left_.overlay
        /\ layer_overlay_items' = left_.items
        /\ _pending_layers' = left_.pending
        /\ _pending_rects' = left_.rects
        /\ _flush_timer' = left_.timer

(***************************************************************************)
(* Lookups.                                                                *)
(***************************************************************************)
HasLayer(lid) == \E i \in 1 .. Len(layers) : layers[i] = lid

\* PixTagMainWindow.current_layer / EditService.current_layer: its id, or None.
current_layer == IF HasLayer(current_layer_id) THEN current_layer_id ELSE NoneId

\* Faulty variant of _get_layer_by_id: the id is not looked up in the project.
_get_layer_by_id_any(layer_id) == layer_id

_get_layer_by_id(layer_id) == IF HasLayer(layer_id) THEN layer_id ELSE NoneId

\* next((c for c in layer.categories if c.id == cid), None), as the index of
\* the category found, or None.
category_index(cats, cid) ==
    LET S == {i \in 1 .. Len(cats) : cats[i].id = cid}
    IN  IF cid = NoneId \/ S = {}
        THEN NoneId
        ELSE cats[CHOOSE i \in S : \A j \in S : i <= j].index

(***************************************************************************)
(* AppState setters.  Each yields the new selection.                       *)
(***************************************************************************)
set_layer(layer_id) ==
    IF current_layer_id = layer_id
    THEN UNCHANGED selection_vars
    ELSE /\ current_layer_id' = layer_id
         /\ current_category_id' = NoneId
         /\ current_entity_id' = NoneId

(***************************************************************************)
(* PixTagMainWindow._apply_stroke_segment on recorder state rec: the new   *)
(* mask of the current layer, the new recorder state and dirty_union, the  *)
(* rect it passes to update_layer_overlay (NullRect when it returns        *)
(* before).                                                                *)
(***************************************************************************)
\* dirty_union = dr if dirty_union is None else dirty_union.united(dr);
\* NullRect stands for None (the rect of a dab is never null).
UnitedInto(dirty_union, dr) == IF dirty_union = NullRect THEN dr ELSE united(dirty_union, dr)

\* The loops over points: the mask and dirty_union after the dabs from
\* point i on.
RECURSIVE BrushDabs(_, _, _, _, _, _)
BrushDabs(m, dirty_union, points, i, r, idx) ==
    IF i > Len(points)
    THEN [mask |-> m, dirty_union |-> dirty_union]
    ELSE LET dab == _dab_set_index(m, image_width, image_height,
                                   points[i][1], points[i][2], r, idx)
         IN  BrushDabs(dab.mask, UnitedInto(dirty_union, dab.rect), points, i + 1, r, idx)

RECURSIVE EraseDabs(_, _, _, _, _, _, _)
EraseDabs(m, dirty_union, points, i, r, mode, selected_idx) ==
    IF i > Len(points)
    THEN [mask |-> m, dirty_union |-> dirty_union]
    ELSE LET dab == _dab_erase(m, image_width, image_height,
                               points[i][1], points[i][2], r, mode, selected_idx)
         IN  EraseDabs(dab.mask, UnitedInto(dirty_union, dab.rect), points, i + 1, r,
                       mode, selected_idx)

\* seg_rect of a segment: the box around both end points, grown by r.
SegRect(x0, y0, x1, y1, r) ==
    QRect(Min(x0, x1) - r, Min(y0, y1) - r,
          Abs(x1 - x0) + 2 * r + 1, Abs(y1 - y0) + 2 * r + 1)

_apply_stroke_segment(rec, x0, y0, x1, y1) ==
    LET layer == current_layer
        r == IF tool_mode = "brush" THEN brush_radius ELSE erase_radius
        points == SegmentPoints(x0, y0, x1, y1, r)
        m == mask[layer]
        rec1 == IF is_active(rec) /\ rec.layer_id = layer
                THEN capture_before_for_rect(rec, m, SegRect(x0, y0, x1, y1, r),
                                             image_width, image_height)
                ELSE rec
        idx == category_index(categories[layer], current_category_id)
        brushed == BrushDabs(m, NullRect, points, 1, r, idx)
        erased == EraseDabs(m, NullRect, points, 1, r, erase_mode,
                            IF erase_mode = "erase_all" THEN NoneId ELSE idx)
    IN  IF layer = NoneId \/ ~image_path
        THEN [layer |-> NoneId, mask |-> << >>, rec |-> rec, dirty_union |-> NullRect]
        ELSE IF tool_mode \notin {"brush", "erase"} \/ r <= 0
        THEN [layer |-> layer, mask |-> m, rec |-> rec, dirty_union |-> NullRect]
        ELSE IF tool_mode = "brush"
        THEN (IF idx = NoneId
              THEN [layer |-> layer, mask |-> m, rec |-> rec1, dirty_union |-> NullRect]
              ELSE [layer |-> layer, mask |-> brushed.mask, rec |-> rec1,
                    dirty_union |-> clamp_rect_to_image(brushed.dirty_union,
                                                        image_width, image_height)])
        ELSE (IF erase_mode \in {"erase_only_category", "erase_all_but_category"}
                 /\ idx = NoneId
              THEN [layer |-> layer, mask |-> m, rec |-> rec1, dirty_union |-> NullRect]
              ELSE [layer |-> layer, mask |-> erased.mask, rec |-> rec1,
                    dirty_union |-> clamp_rect_to_image(erased.dirty_union,
                                                        image_width, image_height)])

\* Faulty variant of AfterSegment: update_layer_overlay runs before the dabs
\* have written the mask.
AfterSegmentStale(seg) ==
    IF seg.layer = NoneId
    THEN Renderer
    ELSE IF seg.dirty_union = NullRect
    THEN [Renderer EXCEPT !.mask[seg.layer] = seg.mask]
    ELSE [update_layer_overlay(Project, Renderer, seg.layer, seg.dirty_union)
             EXCEPT !.mask[seg.layer] = seg.mask]

\* The layers and the renderer after a segment: the dabs have written the
\* mask, then update_layer_overlay(layer, dirty_union) has run once.
AfterSegment(seg) ==
    IF seg.layer = NoneId
    THEN Renderer
    ELSE IF seg.dirty_union = NullRect
    THEN [Renderer EXCEPT !.mask[seg.layer] = seg.mask]
    ELSE update_layer_overlay(Project, [Renderer EXCEPT !.mask[seg.layer] = seg.mask],
                              seg.layer, seg.dirty_union)

(***************************************************************************)
(* Initial state: the window as constructed (one default layer, selected;  *)
(* tool "pan"; erase mode "erase_all"; empty undo stack), after an image   *)
(* of ImgW x ImgH was imported and both radius spin boxes were set to 1.   *)
(* The import has shown the overlay of the layer: its colour table is      *)
(* cached, its overlay image is composited and pushed into a visible item, *)
(* and the flush timer it started has not fired yet.                       *)
(***************************************************************************)
\* The project and the renderer of a window without layers, before layer 1
\* is shown.
NewProject(w, h) ==
    [image_path |-> TRUE, image_width |-> w, image_height |-> h, layers |-> <<1>>,
     categories |-> [l \in LayerIds |-> << >>], b64 |-> [l \in LayerIds |-> NoB64]]

NewRenderer(w, h) ==
    [mask |-> [l \in LayerIds |-> BlankMask(w, h)],
     lut |-> [l \in LayerIds |-> NoLut],
     overlay |-> [l \in LayerIds |-> NoImage],
     items |-> [l \in LayerIds |-> NoItem],
     pending |-> {},
     rects |-> [l \in LayerIds |-> NoRect],
     timer |-> FALSE]

\* The renderer fields of the initial state.
Rendered(rs) ==
    /\ mask = rs.mask
    /\ _lut_rgba = rs.lut
    /\ overlay_rgba_img = rs.overlay
    /\ layer_overlay_items = rs.items
    /\ _pending_layers = rs.pending
    /\ _pending_rects = rs.rects
    /\ _flush_timer = rs.timer

InitMachine ==
    /\ image_path = TRUE
    /\ image_width = ImgW
    /\ image_height = ImgH
    /\ layers = <<1>>
    /\ categories = [l \in LayerIds |-> << >>]
    /\ entities = [l \in LayerIds |-> << >>]
    /\ mask_index_png_b64 = [l \in LayerIds |-> NoB64]
    /\ Rendered(show_layer_overlay(NewProject(ImgW, ImgH), NewRenderer(ImgW, ImgH), 1))
    /\ current_layer_id = 1
    /\ current_category_id = NoneId
    /\ current_entity_id = NoneId
    /\ tool_mode = "pan"
    /\ brush_radius = 1
    /\ erase_radius = 1
    /\ erase_mode = "erase_all"
    /\ _stroke_active = FALSE
    /\ _stroke_last = NoPoint
    /\ _stroke_rec = NewRecorder
    /\ undo_stack = [cmds |-> << >>, index |-> 0]
    /\ ids = [layer |-> 1, category |-> 0, entity |-> 0]
    /\ last_op = "init"
    /\ h_start = << >>
    /\ h_undo = << >>
    /\ n_strokes = 0
    /\ n_moves = 0

Init ==
    /\ InitMachine
    /\ call = NoCall
    /\ ret = NoRet

(***************************************************************************)
(* Tool and selection handlers.                                            *)
(***************************************************************************)
\* refresh_ui_from_state, connected to selectionChanged and projectChanged,
\* as far as it changes the state: refresh_scene_for_selection calls
\* show_layer_overlay(self.current_layer()).  p and layer_id are the project
\* and the selected layer id the handler leaves.  A handler that emits both
\* signals runs it twice; the second run leaves what the first has left.
refresh_scene_for_selection(p, rs, layer_id) ==
    show_layer_overlay(p, rs,
                       IF \E i \in 1 .. Len(p.layers) : p.layers[i] = layer_id
                       THEN layer_id ELSE NoneId)

\* The layers that keep what they hold while the renderer is assigned.
kept_vars == <<image_vars, layers, categories, entities>>

\* AppState.set_tool, from the tool actions of the tool bar.
set_tool(tool) ==
    /\ tool_mode # tool
    /\ tool_mode' = tool
    /\ last_op' = "other"
    /\ UNCHANGED <<project_vars, render_vars, selection_vars, brush_radius, erase_radius,
                   erase_mode, stroke_vars, undo_stack, ids, history_vars, call_vars>>

_on_brush_radius_changed(v) ==
    /\ brush_radius # v
    /\ brush_radius' = v
    /\ last_op' = "other"
    /\ UNCHANGED <<project_vars, render_vars, selection_vars, tool_mode, erase_radius,
                   erase_mode, stroke_vars, undo_stack, ids, history_vars, call_vars>>

_on_erase_radius_changed(v) ==
    /\ erase_radius # v
    /\ erase_radius' = v
    /\ last_op' = "other"
    /\ UNCHANGED <<project_vars, render_vars, selection_vars, tool_mode, brush_radius,
                   erase_mode, stroke_vars, undo_stack, ids, history_vars, call_vars>>

_on_erase_mode_changed(mode) ==
    /\ erase_mode # mode
    /\ erase_mode' = mode
    /\ last_op' = "other"
    /\ UNCHANGED <<project_vars, render_vars, selection_vars, tool_mode, brush_radius,
                   erase_radius, stroke_vars, undo_stack, ids, history_vars, call_vars>>

\* The layer list selects another layer: AppState.set_layer.
_on_layer_item_changed(lid) ==
    /\ HasLayer(lid)
    /\ current_layer_id # lid
    /\ set_layer(lid)
    /\ Renders(refresh_scene_for_selection(Project, Renderer, lid))
    /\ last_op' = "_on_layer_item_changed"
    /\ UNCHANGED <<kept_vars, tool_vars, stroke_vars, undo_stack, ids,
                   history_vars, call_vars>>

\* The category list selects a category of the current layer: set_category.
_on_category_item_changed(cid) ==
    /\ current_layer # NoneId
    /\ \E i \in 1 .. Len(categories[current_layer]) : categories[current_layer][i].id = cid
    /\ current_category_id # cid
    /\ current_category_id' = cid
    /\ Renders(refresh_scene_for_selection(Project, Renderer, current_layer_id))
    /\ last_op' = "other"
    /\ UNCHANGED <<kept_vars, current_layer_id, current_entity_id, tool_vars,
                   stroke_vars, undo_stack, ids, history_vars, call_vars>>

\* The entity list selects an entity of the current layer: set_entity.
_on_entity_item_changed(eid) ==
    /\ current_layer # NoneId
    /\ \E i \in 1 .. Len(entities[current_layer]) : entities[current_layer][i].id = eid
    /\ current_entity_id # eid
    /\ current_entity_id' = eid
    /\ Renders(refresh_scene_for_selection(Project, Renderer, current_layer_id))
    /\ last_op' = "other"
    /\ UNCHANGED <<kept_vars, current_layer_id, current_category_id, tool_vars,
                   stroke_vars, undo_stack, ids, history_vars, call_vars>>

(***************************************************************************)
(* Layers, categories, entities.                                           *)
(***************************************************************************)
\* The new layer is selected, and refresh_scene_for_selection shows it.
add_layer ==
    /\ ids.layer < MaxLayers
    /\ LET lid == ids.layer + 1
       IN  /\ layers' = Append(layers, lid)
           /\ ids' = [ids EXCEPT !.layer = lid]
           /\ set_layer(lid)
           /\ Renders(refresh_scene_for_selection(
                          [Project EXCEPT !.layers = Append(layers, lid)], Renderer, lid))
    /\ last_op' = "add_layer"
    /\ UNCHANGED <<image_vars, categories, entities,
                   tool_vars, stroke_vars, undo_stack, history_vars, call_vars>>

\* The overlay item of the layer is removed from the scene and from
\* layer_overlay_items; the first layer left is selected and shown.
delete_layer ==
    /\ current_layer_id # NoneId
    /\ LET lid == current_layer_id
           rest == SelectSeq(layers, LAMBDA l : l # lid)
           new_id_ == IF Len(rest) > 0 THEN rest[1] ELSE NoneId
       IN  /\ layers' = rest
           /\ set_layer(new_id_)
           /\ Renders(refresh_scene_for_selection(
                          [Project EXCEPT !.layers = rest],
                          [Renderer EXCEPT !.items[lid] = NoItem], new_id_))
    /\ last_op' = "delete_layer"
    /\ UNCHANGED <<image_vars, categories, entities,
                   tool_vars, stroke_vars, undo_stack, ids, history_vars, call_vars>>

\* range(1, 256)
MaxIndex == 255

\* Faulty variant of first_free_index: the index after the largest one in use.
first_free_index_after_last(cats) ==
    LET used == {cats[i].index : i \in 1 .. Len(cats)}
        last == IF used = {} THEN 0 ELSE CHOOSE i \in used : \A j \in used : j <= i
    IN  IF last = MaxIndex THEN NoneId ELSE last + 1

\* next((i for i in range(1, 256) if i not in used), None)
first_free_index(cats) ==
    LET used == {cats[i].index : i \in 1 .. Len(cats)}
        free == (1 .. MaxIndex) \ used
    IN  IF free = {} THEN NoneId ELSE CHOOSE i \in free : \A j \in free : i <= j

\* add_category with the colour the colour dialog returns.
add_category_colored(color) ==
    /\ current_layer # NoneId
    /\ ids.category < MaxCats
    /\ LET layer == current_layer
           idx == first_free_index(categories[layer])
           cid == ids.category + 1
       IN  /\ idx # NoneId
           /\ categories' = [categories EXCEPT ![layer] =
                                Append(@, [id |-> cid, index |-> idx, color |-> color])]
           /\ Renders(refresh_scene_for_selection(
                          [Project EXCEPT !.categories[layer] =
                              Append(@, [id |-> cid, index |-> idx, color |-> color])],
                          [Renderer EXCEPT !.lut[layer] = invalidate_lut(@)],
                          current_layer_id))
           /\ ids' = [ids EXCEPT !.category = cid]
           /\ current_category_id' = cid
    /\ last_op' = "add_category"
    /\ UNCHANGED <<image_vars, layers, entities,
                   current_layer_id, current_entity_id, tool_vars, stroke_vars,
                   undo_stack, history_vars, call_vars>>

\* add_category with the colour the dialog proposes (accepted, or the dialog
\* cancelled).
add_category == add_category_colored(DefaultColor)

\* Faulty variant of delete_category_and_clear_pixels: the entities are not
\* detached and the pixels are not cleared.
delete_category_only(layer, category_id) ==
    [categories |-> SelectSeq(categories[layer], LAMBDA c : c.id # category_id),
     entities |-> entities[layer],
     mask |-> mask[layer],
     lut |-> invalidate_lut(_lut_rgba[layer]),
     deleted_index |-> category_index(categories[layer], category_id)]

\* EditService.delete_category_and_clear_pixels on the current layer: the
\* layer's new categories, entities and mask, and the deleted index.
delete_category_and_clear_pixels(layer, category_id) ==
    LET cats == categories[layer]
        deleted_index == category_index(cats, category_id)
    IN  [categories |-> SelectSeq(cats, LAMBDA c : c.id # category_id),
         entities |-> [i \in 1 .. Len(entities[layer]) |->
                         IF entities[layer][i].category_id = category_id
                         THEN [entities[layer][i] EXCEPT !.category_id = NoneId]
                         ELSE entities[layer][i]],
         mask |-> IF deleted_index = NoneId \/ ~image_path
                  THEN mask[layer]
                  ELSE [p \in DOMAIN mask[layer] |->
                          IF mask[layer][p] = deleted_index THEN 0 ELSE mask[layer][p]],
         lut |-> invalidate_lut(_lut_rgba[layer]),
         deleted_index |-> deleted_index]

\* delete_category: after delete_category_and_clear_pixels the full image is
\* recomposited when a category was deleted, and the layer is shown.
delete_category ==
    /\ current_layer # NoneId
    /\ current_category_id # NoneId
    /\ LET layer == current_layer
           res == delete_category_and_clear_pixels(layer, current_category_id)
           p == [Project EXCEPT !.categories[layer] = res.categories]
           cleared == [Renderer EXCEPT !.mask[layer] = res.mask, !.lut[layer] = res.lut]
           updated == IF res.deleted_index # NoneId /\ image_path
                      THEN update_layer_overlay(p, cleared, layer,
                                                QRect(0, 0, image_width, image_height))
                      ELSE cleared
       IN  /\ categories' = [categories EXCEPT ![layer] = res.categories]
           /\ entities' = [entities EXCEPT ![layer] = res.entities]
           /\ Renders(refresh_scene_for_selection(p, updated, current_layer_id))
           /\ last_op' = IF res.entities # entities[layer] /\ res.mask # mask[layer]
                         THEN "delete_category_used"
                         ELSE "delete_category"
    /\ current_category_id' = NoneId
    /\ UNCHANGED <<image_vars, layers, current_layer_id,
                   current_entity_id, tool_vars, stroke_vars, undo_stack, ids,
                   history_vars, call_vars>>

add_entity ==
    /\ current_layer # NoneId
    /\ ids.entity < MaxEnts
    /\ LET eid == ids.entity + 1
       IN  /\ entities' = [entities EXCEPT ![current_layer] =
                              Append(@, [id |-> eid, category_id |-> current_category_id])]
           /\ ids' = [ids EXCEPT !.entity = eid]
           /\ current_entity_id' = eid
    /\ Renders(refresh_scene_for_selection(Project, Renderer, current_layer_id))
    /\ tool_mode' = "entity_point"
    /\ last_op' = "add_entity"
    /\ UNCHANGED <<image_vars, layers, categories,
                   current_layer_id, current_category_id, brush_radius, erase_radius,
                   erase_mode, stroke_vars, undo_stack, history_vars, call_vars>>

delete_entity ==
    /\ current_layer # NoneId
    /\ current_entity_id # NoneId
    /\ entities' = [entities EXCEPT ![current_layer] =
                       SelectSeq(@, LAMBDA e : e.id # current_entity_id)]
    /\ current_entity_id' = NoneId
    /\ Renders(refresh_scene_for_selection(Project, Renderer, current_layer_id))
    /\ last_op' = "delete_entity"
    /\ UNCHANGED <<image_vars, layers, categories,
                   current_layer_id, current_category_id, tool_vars, stroke_vars,
                   undo_stack, ids, history_vars, call_vars>>

(***************************************************************************)
(* Strokes.  Pointer positions arrive as in-bounds integer pixels (the     *)
(* handlers return on any other).                                         *)
(***************************************************************************)
\* Faulty variant of category_missing: the erase modes are not looked at.
category_missing_brush_only == tool_mode = "brush" /\ current_category_id = NoneId

\* The two tests of on_stroke_started that end it with a status message.
category_missing ==
    \/ tool_mode = "brush" /\ current_category_id = NoneId
    \/ /\ tool_mode = "erase"
       /\ erase_mode \in {"erase_only_category", "erase_all_but_category"}
       /\ current_category_id = NoneId

\* The tests of on_stroke_started before those: it returns without a message.
start_ignored(ix, iy) ==
    \/ ~image_path
    \/ tool_mode \in {"probe", "entity_point", "pan"}
    \/ ~(0 <= ix /\ ix < image_width /\ 0 <= iy /\ iy < image_height)

on_stroke_started(ix, iy) ==
    /\ n_strokes < MaxStrokes
    /\ ~start_ignored(ix, iy)
    /\ ~category_missing
    /\ current_layer # NoneId
    /\ LET seg == _apply_stroke_segment(begin(current_layer), ix, iy, ix, iy)
       IN  /\ _stroke_rec' = seg.rec
           /\ Renders(AfterSegment(seg))
    /\ _stroke_active' = TRUE
    /\ _stroke_last' = <<ix, iy>>
    /\ h_start' = mask
    /\ n_strokes' = n_strokes + 1
    /\ n_moves' = 0
    /\ last_op' = "on_stroke_started"
    /\ UNCHANGED <<image_vars, layers, categories, entities,
                   selection_vars, tool_vars, undo_stack, ids, h_undo, call_vars>>

on_stroke_moved(ix, iy) ==
    /\ n_moves < MaxMoves
    /\ _stroke_active
    /\ 0 <= ix /\ ix < image_width /\ 0 <= iy /\ iy < image_height
    /\ <<ix, iy>> # _stroke_last
    /\ LET seg == _apply_stroke_segment(_stroke_rec, _stroke_last[1], _stroke_last[2], ix, iy)
       IN  /\ _stroke_rec' = seg.rec
           /\ Renders(AfterSegment(seg))
    /\ _stroke_last' = <<ix, iy>>
    /\ n_moves' = n_moves + 1
    /\ last_op' = "on_stroke_moved"
    /\ UNCHANGED <<image_vars, layers, categories, entities,
                   selection_vars, tool_vars, _stroke_active, undo_stack, ids,
                   h_start, h_undo, n_strokes, call_vars>>

\* The command on_stroke_ended builds, or NoCommand.
EndCommand ==
    LET layer == current_layer
    IN  IF /\ is_active(_stroke_rec)
           /\ layer # NoneId
           /\ layer = _stroke_rec.layer_id
           /\ image_path
        THEN build_command(_stroke_rec, mask[layer], image_width, image_height)
        ELSE NoCommand

\* Faulty variant of AfterCommand: the tiles are written to the current layer.
AfterCommandOnCurrent(cmd, which) ==
    LET layer == current_layer
        m == ensure_layer_index_mask(mask[layer], mask_index_png_b64[layer],
                                     image_width, image_height).mask
        written == [Renderer EXCEPT !.mask[layer] = _apply(m, cmd, which)]
    IN  IF layer = NoneId
        THEN Renderer
        ELSE flush_now(Project,
                       update_layer_overlay(Project, written, layer, cmd.dirty_rect),
                       layer)

\* MaskTilesUndoCommand._apply(which): the layers and the renderer after it.
\* The layer is resolved by id; its tiles are written, its dirty rect is
\* recomposited and its pixmap is pushed.
AfterCommand(cmd, which) ==
    LET layer == _get_layer_by_id(cmd.layer_id)
        m == ensure_layer_index_mask(mask[layer], mask_index_png_b64[layer],
                                     image_width, image_height).mask
        written == [Renderer EXCEPT !.mask[layer] = _apply(m, cmd, which)]
    IN  IF layer = NoneId
        THEN Renderer
        ELSE flush_now(Project,
                       update_layer_overlay(Project, written, layer, cmd.dirty_rect),
                       layer)

\* QUndoStack.push(cmd): drops the commands above index, runs cmd.redo() and
\* appends cmd.
push(cmd) ==
    /\ undo_stack' = [cmds |-> Append(SubSeq(undo_stack.cmds, 1, undo_stack.index), cmd),
                      index |-> undo_stack.index + 1]
    /\ Renders(AfterCommand(cmd, "after"))
    /\ h_undo' = Append(SubSeq(h_undo, 1, undo_stack.index),
                        [pre_mask |-> h_start[cmd.layer_id],
                         post_mask |-> mask[cmd.layer_id]])

on_stroke_ended ==
    /\ _stroke_active \/ is_active(_stroke_rec)
    /\ IF EndCommand.kind = "cmd"
       THEN /\ push(EndCommand)
            /\ last_op' = "on_stroke_ended_push"
       ELSE /\ UNCHANGED <<undo_stack, mask, _lut_rgba, render_vars, h_undo>>
            /\ last_op' = "on_stroke_ended"
    /\ _stroke_rec' = [_stroke_rec EXCEPT !.layer_id = NoneId]
    /\ _stroke_active' = FALSE
    /\ _stroke_last' = NoPoint
    /\ h_start' = << >>
    /\ UNCHANGED <<image_vars, layers, categories, entities,
                   selection_vars, tool_vars, ids, n_strokes, n_moves, call_vars>>

(***************************************************************************)
(* The undo and redo actions of the QUndoStack.                            *)
(***************************************************************************)
undo ==
    /\ undo_stack.index > 0
    /\ Renders(AfterCommand(undo_stack.cmds[undo_stack.index], "before"))
    /\ undo_stack' = [undo_stack EXCEPT !.index = @ - 1]
    /\ last_op' = "undo"
    /\ UNCHANGED <<image_vars, layers, categories, entities,
                   selection_vars, tool_vars, stroke_vars, ids, history_vars, call_vars>>

redo ==
    /\ undo_stack.index < Len(undo_stack.cmds)
    /\ Renders(AfterCommand(undo_stack.cmds[undo_stack.index + 1], "after"))
    /\ undo_stack' = [undo_stack EXCEPT !.index = @ + 1]
    /\ last_op' = "redo"
    /\ UNCHANGED <<image_vars, layers, categories, entities,
                   selection_vars, tool_vars, stroke_vars, ids, history_vars, call_vars>>

(***************************************************************************)
(* SpecAll: every handler may run at any time.                             *)
(***************************************************************************)
\* The pointer positions drawn: two opposite corners of the image, which lie
\* in different tiles.
\* ImageCanvas emits strokeStarted on a press of the left button and
\* strokeEnded on its release: PointerDown comes only when no stroke runs.
PointerPixels == {<<0, 0>>, <<ImgW - 1, ImgH - 1>>}
PointerDown == ~_stroke_active /\ \E p \in PointerPixels : on_stroke_started(p[1], p[2])
PointerMove == \E p \in PointerPixels : on_stroke_moved(p[1], p[2])
PointerUp == on_stroke_ended
SetTool == \E t \in ToolModes : set_tool(t)
SetBrushRadius == \E v \in 1 .. MaxRadius : _on_brush_radius_changed(v)
SetEraseRadius == \E v \in 1 .. MaxRadius : _on_erase_radius_changed(v)
SetEraseMode == \E m \in EraseModes : _on_erase_mode_changed(m)
SelectLayer == \E l \in LayerIds : _on_layer_item_changed(l)
SelectCategory == \E c \in 1 .. MaxCats : _on_category_item_changed(c)
SelectEntity == \E e \in 1 .. MaxEnts : _on_entity_item_changed(e)

Next ==
    \/ PointerDown
    \/ PointerMove
    \/ PointerUp
    \/ undo
    \/ redo
    \/ SetTool
    \/ SetBrushRadius
    \/ SetEraseMode
    \/ SelectLayer
    \/ SelectCategory
    \/ SelectEntity
    \/ add_layer
    \/ delete_layer
    \/ add_category
    \/ delete_category
    \/ add_entity
    \/ delete_entity

SpecAll == Init /\ [][Next]_vars

(***************************************************************************)
(* SpecStroke: one layer, and a stroke runs from its start to its end with *)
(* no undo or redo in between.  The mask is changed by dabs and by the    *)
(* undo stack only.                                                        *)
(***************************************************************************)
UndoIdle == ~_stroke_active /\ undo
RedoIdle == ~_stroke_active /\ redo

NextStroke ==
    \/ PointerDown
    \/ PointerMove
    \/ PointerUp
    \/ UndoIdle
    \/ RedoIdle
    \/ SetTool
    \/ SetBrushRadius
    \/ SetEraseMode
    \/ SelectCategory
    \/ add_category

SpecStroke == Init /\ [][NextStroke]_vars

(***************************************************************************)
(* SpecLayers: strokes interleaved with the handlers that change the       *)
(* selected layer, the tool, the erase mode and the selected category, and *)
(* with layer creation and deletion.                                       *)
(***************************************************************************)
\* add_layer and add_category ask for a name in a modal dialog, which is not
\* opened while the pointer is down on the canvas.
AddLayerIdle == ~_stroke_active /\ add_layer
AddCategoryIdle == ~_stroke_active /\ add_category

\* One stroke per run.
FirstPointerDown == n_strokes = 0 /\ PointerDown

NextLayers ==
    \/ FirstPointerDown
    \/ PointerMove
    \/ PointerUp
    \/ SetTool
    \/ SetEraseMode
    \/ SelectLayer
    \/ SelectCategory
    \/ AddLayerIdle
    \/ delete_layer
    \/ AddCategoryIdle

SpecLayers == Init /\ [][NextLayers]_vars

(***************************************************************************)
(* SpecCategories: one layer; strokes, undo and redo interleaved with      *)
(* category creation, selection and deletion and with entity creation.     *)
(***************************************************************************)
NextCategories ==
    \/ PointerDown
    \/ PointerMove
    \/ PointerUp
    \/ undo
    \/ redo
    \/ SetTool
    \/ SelectCategory
    \/ add_category
    \/ delete_category
    \/ add_entity

SpecCategories == Init /\ [][NextCategories]_vars

(***************************************************************************)
(* Properties of a stroke, of the recorder and of the undo stack           *)
(* (SpecStroke).                                                           *)
(***************************************************************************)
\* The byte a packed tile holds for pixel p of its rect.
TileByte(data, rect, p) == data[(p[2] - top(rect)) * rect.w + (p[1] - left(rect)) + 1]

\* The pixels of a rect.
RectPixels(rect) == {p \in Pixels(ImgW, ImgH) : InRect(p, rect)}

\* C1: after undo() of a stroke's command every byte of the layer's mask has
\* the value it had just before that stroke started; after redo() of it, and
\* after the push that ends the stroke, every byte has the value it had at
\* the end of the stroke -- whatever the number of tiles the stroke touched.
C1_UndoRedoLaw ==
    /\ Len(h_undo) = Len(undo_stack.cmds)
    /\ last_op = "undo" =>
          LET i == undo_stack.index + 1
          IN  mask[undo_stack.cmds[i].layer_id] = h_undo[i].pre_mask
    /\ last_op \in {"redo", "on_stroke_ended_push"} =>
          LET i == undo_stack.index
          IN  mask[undo_stack.cmds[i].layer_id] = h_undo[i].post_mask

\* A stroke over painted pixels that touched two tiles or more and changed
\* the mask has been undone and redone.
C1_Witness ==
    /\ last_op = "redo"
    /\ undo_stack.index >= 1
    /\ LET i == undo_stack.index
           cmd == undo_stack.cmds[i]
       IN  /\ Cardinality(DOMAIN cmd.tiles_rect) >= 2
           /\ h_undo[i].pre_mask # h_undo[i].post_mask
           /\ \E p \in Pixels(ImgW, ImgH) : h_undo[i].pre_mask[p] # 0
           /\ mask[cmd.layer_id] = h_undo[i].post_mask

\* C2: while a stroke is recording, the 'before' bytes of every captured
\* tile equal the content the tile had in the mask when the stroke began,
\* every pixel the stroke has changed lies inside a captured tile, and no
\* step of the stroke drops or replaces the bytes of a captured tile.
C2_BeforeIsStrokeStart ==
    (_stroke_active /\ is_active(_stroke_rec)) =>
        LET rec == _stroke_rec
            lid == rec.layer_id
        IN  /\ DOMAIN rec.tiles_rect = DOMAIN rec.tiles_before
            /\ \A k \in DOMAIN rec.tiles_before :
                 /\ rec.tiles_rect[k] =
                       intersected(QRect(k[1] * TileSize, k[2] * TileSize, TileSize, TileSize),
                                   QRect(0, 0, ImgW, ImgH))
                 /\ Len(rec.tiles_before[k]) = rec.tiles_rect[k].w * rec.tiles_rect[k].h
                 /\ \A p \in RectPixels(rec.tiles_rect[k]) :
                       TileByte(rec.tiles_before[k], rec.tiles_rect[k], p) = h_start[lid][p]
            /\ \A p \in Pixels(ImgW, ImgH) :
                 mask[lid][p] # h_start[lid][p] =>
                     \E k \in DOMAIN rec.tiles_before : InRect(p, rec.tiles_rect[k])

C2_NoRecapture ==
    (_stroke_active /\ _stroke_active') =>
        \A k \in DOMAIN _stroke_rec.tiles_before :
            /\ k \in DOMAIN _stroke_rec'.tiles_before
            /\ _stroke_rec'.tiles_before[k] = _stroke_rec.tiles_before[k]

C2_CapturedOnce == []C2_BeforeIsStrokeStart /\ [][C2_NoRecapture]_vars

\* A second segment of a stroke has run over a tile captured by the first:
\* the tile's content differs from its 'before' bytes, which are not blank.
C2_Witness ==
    /\ _stroke_active
    /\ last_op = "on_stroke_moved"
    /\ Cardinality(DOMAIN _stroke_rec.tiles_before) >= 2
    /\ \E k \in DOMAIN _stroke_rec.tiles_before :
          LET rect == _stroke_rec.tiles_rect[k]
          IN  /\ \E p \in RectPixels(rect) :
                    TileByte(_stroke_rec.tiles_before[k], rect, p) # 0
              /\ \E p \in RectPixels(rect) :
                    TileByte(_stroke_rec.tiles_before[k], rect, p)
                        # mask[_stroke_rec.layer_id][p]

\* C3: when a stroke ends and no captured tile's bytes differ from its
\* 'before' bytes, build_command returns None and the undo stack is left as
\* it was.
NoCapturedTileDiffers ==
    \A k \in DOMAIN _stroke_rec.tiles_before :
        \A p \in RectPixels(_stroke_rec.tiles_rect[k]) :
            TileByte(_stroke_rec.tiles_before[k], _stroke_rec.tiles_rect[k], p)
                = mask[_stroke_rec.layer_id][p]

C3_NoOpStep ==
    (_stroke_active /\ ~_stroke_active' /\ is_active(_stroke_rec) /\ NoCapturedTileDiffers) =>
        /\ build_command(_stroke_rec, mask[_stroke_rec.layer_id], image_width, image_height)
              = NoCommand
        /\ undo_stack' = undo_stack
        /\ mask' = mask

C3_NoOpStroke == [][C3_NoOpStep]_vars

\* An erase stroke over two blank tiles has ended: nothing was pushed.
C3_Witness ==
    /\ last_op = "on_stroke_ended"
    /\ ~_stroke_active
    /\ tool_mode = "erase"
    /\ Cardinality(DOMAIN _stroke_rec.tiles_before) >= 2
    /\ mask[1] = BlankMask(ImgW, ImgH)
    /\ undo_stack.cmds = << >>

(***************************************************************************)
(* Strokes interleaved with other handlers (SpecLayers).                   *)
(***************************************************************************)
\* C4: at the end of every stroke, whatever handlers ran since its start,
\* either no mask byte of any layer of the project differs from its value at
\* the start of the stroke, or a command was pushed whose undo() restores
\* every byte changed since then.
C4_ResolvesStep ==
    (_stroke_active /\ ~_stroke_active') =>
        \/ \A l \in LayerIds : HasLayer(l) => mask[l] = h_start[l]
        \/ /\ undo_stack'.index = undo_stack.index + 1
           /\ LET cmd == undo_stack'.cmds[undo_stack'.index]
              IN  \A l \in LayerIds :
                     HasLayer(l) =>
                        (IF l = cmd.layer_id
                         THEN _apply(mask'[l], cmd, "before")
                         ELSE mask'[l]) = h_start[l]

C4_StrokeResolves == [][C4_ResolvesStep]_vars

\* A stroke has ended on another layer than the one it started on: the layer
\* it painted differs from its content at the start of the stroke and the
\* undo stack is empty.
C4_Witness ==
    /\ last_op = "on_stroke_ended"
    /\ undo_stack.cmds = << >>
    /\ n_strokes = 1
    /\ HasLayer(1)
    /\ current_layer_id = 2
    /\ mask[1] # BlankMask(ImgW, ImgH)

(***************************************************************************)
(* Categories, strokes and the undo stack (SpecCategories).                *)
(***************************************************************************)
\* C5: every nonzero byte of a layer's mask is the index of a category the
\* layer currently has.
C5_NoStaleIndex ==
    \A l \in LayerIds : \A p \in Pixels(ImgW, ImgH) :
        mask[l][p] # 0 =>
            \E i \in 1 .. Len(categories[l]) : categories[l][i].index = mask[l][p]

\* A redo after the deletion of the category the redone stroke painted.
C5_Witness ==
    /\ last_op = "redo"
    /\ categories[1] = << >>
    /\ \E p \in Pixels(ImgW, ImgH) : mask[1][p] # 0

\* C6: the step of delete_category_and_clear_pixels removing category C of
\* index i from the current layer leaves no pixel of the layer's mask with
\* value i and every other pixel as it was, removes C (and only C) from the
\* layer's categories, sets to None the category reference of every entity
\* of the layer that referenced C and leaves the other entities unchanged.
C6_DeleteStep ==
    last_op' \in {"delete_category", "delete_category_used"} =>
        LET l == current_layer
            cid == current_category_id
            C == {j \in 1 .. Len(categories[l]) : categories[l][j].id = cid}
        IN  /\ \A j \in C : \A p \in Pixels(ImgW, ImgH) :
                  /\ mask'[l][p] # categories[l][j].index
                  /\ mask[l][p] # categories[l][j].index => mask'[l][p] = mask[l][p]
            /\ \A j \in 1 .. Len(categories'[l]) : categories'[l][j].id # cid
            /\ \A j \in 1 .. Len(categories[l]) :
                  categories[l][j].id # cid =>
                      \E k \in 1 .. Len(categories'[l]) : categories'[l][k] = categories[l][j]
            /\ Len(categories'[l]) = Len(categories[l]) - Cardinality(C)
            /\ Len(entities'[l]) = Len(entities[l])
            /\ \A j \in 1 .. Len(entities[l]) :
                  IF entities[l][j].category_id = cid
                  THEN /\ entities'[l][j].id = entities[l][j].id
                       /\ entities'[l][j].category_id = NoneId
                  ELSE entities'[l][j] = entities[l][j]

C6_DeleteCategory == [][C6_DeleteStep]_vars

\* A deletion has cleared pixels and detached an entity while another
\* category, with painted pixels of its own, stayed.
C6_Witness ==
    /\ last_op = "delete_category_used"
    /\ Len(categories[1]) = 1
    /\ \E j \in 1 .. Len(entities[1]) : entities[1][j].category_id = NoneId
    /\ \E p \in Pixels(ImgW, ImgH) : mask[1][p] = 0
    /\ \E p \in Pixels(ImgW, ImgH) : mask[1][p] = categories[1][1].index

(***************************************************************************)
(* ProjectCodec.dict_to_project, for the categories of a layer.  A         *)
(* category dict of the file is [id, index], index = None when the file    *)
(* stores none.                                                            *)
(***************************************************************************)
\* while next_idx in used and next_idx < 256: next_idx += 1
RECURSIVE SkipUsed(_, _)
SkipUsed(used, next_idx) ==
    IF next_idx \in used /\ next_idx < MaxIndex + 1
    THEN SkipUsed(used, next_idx + 1)
    ELSE next_idx

\* The loop over ld.get("categories", []), from category dict i on.
RECURSIVE AssignIndices(_, _, _, _)
AssignIndices(cds, i, used, next_idx) ==
    IF i > Len(cds)
    THEN << >>
    ELSE LET stored == cds[i].index
             next1 == IF stored = NoneId THEN SkipUsed(used, next_idx) ELSE next_idx
             idx == IF stored = NoneId THEN next1 ELSE stored
         IN  <<[id |-> cds[i].id, index |-> idx, color |-> cds[i].color]>>
                 \o AssignIndices(cds, i + 1, used \cup {idx}, next1)

\* The categories of the layer dict_to_project builds from layer dict ld.
dict_to_project(ld) == AssignIndices(ld.categories, 1, {}, 1)

\* load_project_json of a file with one layer (id 1), the categories of the
\* call, no entities, no stored mask and the image of the running project:
\* the project is replaced, the first layer is selected, the overlay items
\* are cleared and the mask of the layer is created blank.  The layers are
\* new objects, without mask, overlay image or cached table;
\* notify_project_changed then shows the overlay of the first layer.
load_project_json ==
    /\ call.fn = "dict_to_project"
    /\ ret = NoRet
    /\ ~_stroke_active
    /\ layers' = <<1>>
    /\ categories' = [l \in LayerIds |-> IF l = 1 THEN dict_to_project(call) ELSE << >>]
    /\ entities' = [l \in LayerIds |-> << >>]
    /\ mask_index_png_b64' = [l \in LayerIds |-> NoB64]
    /\ LET p == [Project EXCEPT
                    !.layers = <<1>>,
                    !.categories = [l \in LayerIds |->
                                       IF l = 1 THEN dict_to_project(call) ELSE << >>],
                    !.b64 = [l \in LayerIds |-> NoB64]]
           loaded == [clear_overlay_items(Renderer) EXCEPT
                         !.mask = [l \in LayerIds |-> BlankMask(image_width, image_height)],
                         !.lut = [l \in LayerIds |-> NoLut],
                         !.overlay = [l \in LayerIds |-> NoImage]]
       IN  Renders(refresh_scene_for_selection(p, loaded, 1))
    /\ current_layer_id' = 1
    /\ current_category_id' = NoneId
    /\ current_entity_id' = NoneId
    /\ ids' = [ids EXCEPT !.category = Max(@, Len(call.categories))]
    /\ ret' = [fn |-> "dict_to_project"]
    /\ last_op' = "load_project_json"
    /\ UNCHANGED <<image_path, image_width, image_height, tool_vars, stroke_vars,
                   undo_stack, history_vars, call>>

\* The category lists of the files drawn: up to MaxFileCats categories, ids
\* 1, 2, ...; a stored index is in 1 .. MaxFileCats and no two stored indices
\* of a file are equal.
FileCategories ==
    LET Stored == UNION {[1 .. n -> 0 .. MaxFileCats] : n \in 0 .. MaxFileCats}
        Valid == {f \in Stored :
                    \A i, j \in DOMAIN f : (i # j /\ f[i] # NoneId) => f[i] # f[j]}
    IN  {[i \in DOMAIN f |-> [id |-> i, index |-> f[i], color |-> DefaultColor]] : f \in Valid}

(***************************************************************************)
(* SpecCodec: a project file is loaded into the running window, with       *)
(* categories added, selected and deleted before and after.                *)
(***************************************************************************)
InitCodec ==
    /\ InitMachine
    /\ call \in {[fn |-> "dict_to_project", categories |-> cds] : cds \in FileCategories}
    /\ ret = NoRet

NextCodec ==
    \/ load_project_json
    \/ add_category
    \/ delete_category
    \/ SelectCategory

SpecCodec == InitCodec /\ [][NextCodec]_vars

\* C7: in every state, every category's index lies in 1 .. 255 (so is never
\* 0) and no two categories of one layer have the same index.
C7_IndexValid ==
    \A l \in LayerIds :
        /\ \A i \in 1 .. Len(categories[l]) :
              categories[l][i].index >= 1 /\ categories[l][i].index <= 255
        /\ \A i, j \in 1 .. Len(categories[l]) :
              i # j => categories[l][i].index # categories[l][j].index

\* A file with a category that stores no index and a later one that stores
\* index 1 has been loaded.
C7_Witness ==
    /\ last_op = "load_project_json"
    /\ Len(call.categories) = 2
    /\ call.categories[1].index = NoneId
    /\ call.categories[2].index = 1

(***************************************************************************)
(* SpecDab: one call of a dab function on the mask of an ImgW x ImgH       *)
(* image.  The call is drawn by the initial state, its result is kept in   *)
(* ret.                                                                    *)
(***************************************************************************)
\* The masks drawn: the constant masks, the stripes and the diagonals over
\* the bytes 0 .. MaxCats.
PatternMask(a, b, c) ==
    [p \in Pixels(ImgW, ImgH) |-> (a * p[1] + b * p[2] + c) % (MaxCats + 1)]

PatternMasks == {PatternMask(a, b, c) : a \in Bytes, b \in Bytes, c \in Bytes}

\* _apply_stroke_segment calls the dabs with r > 0, the index of an existing
\* category and, in erase mode, selected_idx = None exactly in mode erase_all.
DabSetIndexCalls ==
    {[fn |-> "_dab_set_index", mask |-> m, x |-> p[1], y |-> p[2], r |-> r, idx |-> i] :
        m \in PatternMasks, p \in Pixels(ImgW, ImgH), r \in 1 .. MaxRadius, i \in 1 .. MaxCats}

ModeSelections ==
    {<<"erase_all", NoneId>>}
        \cup ({"erase_only_category", "erase_all_but_category"} \X (1 .. MaxCats))

DabEraseCalls ==
    {[fn |-> "_dab_erase", mask |-> m, x |-> p[1], y |-> p[2], r |-> r,
      mode |-> ms[1], selected_idx |-> ms[2]] :
        m \in PatternMasks, p \in Pixels(ImgW, ImgH), r \in 1 .. MaxRadius,
        ms \in ModeSelections}

\* EditService.paint_at and erase_at read the radius and the selection from
\* the AppState: the radius may be 0 and there may be no selected category.
PaintAtCalls ==
    {[fn |-> "paint_at", mask |-> m, x |-> p[1], y |-> p[2], r |-> r, idx |-> i] :
        m \in PatternMasks, p \in Pixels(ImgW, ImgH), r \in 0 .. MaxRadius, i \in 0 .. MaxCats}

EraseAtCalls ==
    {[fn |-> "erase_at", mask |-> m, x |-> p[1], y |-> p[2], r |-> r,
      mode |-> ms[1], selected_idx |-> ms[2]] :
        m \in PatternMasks, p \in Pixels(ImgW, ImgH), r \in 0 .. MaxRadius,
        ms \in ModeSelections
                 \cup ({"erase_only_category", "erase_all_but_category"} \X {NoneId})}

InitDab ==
    /\ InitMachine
    /\ call \in DabSetIndexCalls \cup DabEraseCalls \cup PaintAtCalls \cup EraseAtCalls
    /\ ret = NoRet

Returns(res) ==
    /\ ret = NoRet
    /\ ret' = [fn |-> call.fn, mask |-> res.mask, rect |-> res.rect]
    /\ UNCHANGED <<project_vars, render_vars, selection_vars, tool_vars, stroke_vars, undo_stack, ids,
                   last_op, history_vars, call>>

call_dab_set_index ==
    /\ call.fn = "_dab_set_index"
    /\ Returns(_dab_set_index(call.mask, image_width, image_height,
                              call.x, call.y, call.r, call.idx))

call_dab_erase ==
    /\ call.fn = "_dab_erase"
    /\ Returns(_dab_erase(call.mask, image_width, image_height,
                          call.x, call.y, call.r, call.mode, call.selected_idx))

call_paint_at ==
    /\ call.fn = "paint_at"
    /\ Returns(paint_at(call.mask, image_width, image_height,
                        call.x, call.y, call.r, call.idx))

call_erase_at ==
    /\ call.fn = "erase_at"
    /\ Returns(erase_at(call.mask, image_width, image_height,
                        call.x, call.y, call.r, call.mode, call.selected_idx))

\* The same dab once more, on the mask the first one left: ret keeps that
\* mask as once.
ReturnsAgain(res) ==
    /\ ret' = [fn |-> call.fn \o "_again", mask |-> res.mask, rect |-> res.rect,
               once |-> ret.mask]
    /\ UNCHANGED <<project_vars, render_vars, selection_vars, tool_vars, stroke_vars, undo_stack, ids,
                   last_op, history_vars, call>>

call_dab_set_index_again ==
    /\ ret.fn = "_dab_set_index"
    /\ ReturnsAgain(_dab_set_index(ret.mask, image_width, image_height,
                                   call.x, call.y, call.r, call.idx))

call_dab_erase_again ==
    /\ ret.fn = "_dab_erase"
    /\ ReturnsAgain(_dab_erase(ret.mask, image_width, image_height,
                               call.x, call.y, call.r, call.mode, call.selected_idx))

NextDab ==
    \/ call_dab_set_index
    \/ call_dab_erase
    \/ call_paint_at
    \/ call_erase_at
    \/ call_dab_set_index_again
    \/ call_dab_erase_again

SpecDab == InitDab /\ [][NextDab]_vars

\* The squared distance of pixel p from the centre of the call.
Dist2(p) == (p[1] - call.x) * (p[1] - call.x) + (p[2] - call.y) * (p[2] - call.y)

\* C8: a paint dab at (x, y) with radius r > 0 and category index c sets to c
\* exactly the pixels of the image at squared distance <= r^2 from (x, y),
\* whatever they held, and leaves every other byte of the mask as it was.
C8_PaintDab ==
    (ret.fn \in {"_dab_set_index", "paint_at"} /\ call.r > 0 /\ call.idx # NoneId) =>
        /\ DOMAIN ret.mask = Pixels(ImgW, ImgH)
        /\ \A p \in Pixels(ImgW, ImgH) :
              ret.mask[p] = IF Dist2(p) <= call.r * call.r THEN call.idx ELSE call.mask[p]

\* A dab has overwritten another category's index at a pixel exactly on the
\* radius and has left a pixel of its bounding box outside the circle alone.
C8_Witness ==
    /\ ret.fn = "_dab_set_index"
    /\ \E p \in Pixels(ImgW, ImgH) :
          /\ Dist2(p) = call.r * call.r
          /\ call.mask[p] \notin {0, call.idx}
          /\ ret.mask[p] = call.idx
    /\ \E p \in Pixels(ImgW, ImgH) :
          /\ Abs(p[1] - call.x) <= call.r /\ Abs(p[2] - call.y) <= call.r
          /\ Dist2(p) > call.r * call.r
          /\ call.mask[p] # call.idx
          /\ ret.mask[p] = call.mask[p]

\* C9: the rectangle a paint or erase dab at (x, y) with radius r returns is
\* the box [x-r, x+r] x [y-r, y+r] intersected with the image rectangle.
C9_DabRect ==
    (ret.fn \in {"_dab_set_index", "_dab_erase", "paint_at", "erase_at"}
        /\ ret.rect # NoRect) =>
        /\ ret.rect.x >= 0 /\ ret.rect.y >= 0
        /\ ret.rect.w >= 1 /\ ret.rect.h >= 1
        /\ ret.rect.x + ret.rect.w <= ImgW
        /\ ret.rect.y + ret.rect.h <= ImgH
        /\ \A p \in Pixels(ImgW, ImgH) :
              InRect(p, ret.rect) <=>
                  (Abs(p[1] - call.x) <= call.r /\ Abs(p[2] - call.y) <= call.r)

\* An erase dab whose circle is cut by the left and the top edge.
C9_Witness ==
    /\ ret.fn = "_dab_erase"
    /\ call.x - call.r < 0
    /\ call.y - call.r < 0
    /\ ret.rect.x = 0 /\ ret.rect.y = 0
    /\ ret.rect.w < 2 * call.r + 1
    /\ ret.rect.h < 2 * call.r + 1

\* C10: an erase dab changes only pixels of the image at squared distance
\* <= r^2 from (x, y), and only to 0: in mode erase_all the nonzero bytes, in
\* erase_only_category the bytes equal to the selected index, in
\* erase_all_but_category the nonzero bytes different from the selected
\* index; every other byte keeps its value.
Erases(cur) ==
    \/ call.mode = "erase_all" /\ cur # 0
    \/ call.mode = "erase_only_category" /\ cur = call.selected_idx
    \/ call.mode = "erase_all_but_category" /\ cur # 0 /\ cur # call.selected_idx

C10_EraseDab ==
    (ret.fn \in {"_dab_erase", "erase_at"} /\ ret.rect # NoRect) =>
        /\ DOMAIN ret.mask = Pixels(ImgW, ImgH)
        /\ \A p \in Pixels(ImgW, ImgH) :
              ret.mask[p] = IF Dist2(p) <= call.r * call.r /\ Erases(call.mask[p])
                            THEN 0
                            ELSE call.mask[p]

\* An erase_all_but_category dab has kept the selected index and cleared
\* another one inside the circle, and has kept that other index outside it.
C10_Witness ==
    /\ ret.fn = "_dab_erase"
    /\ call.mode = "erase_all_but_category"
    /\ \E p \in Pixels(ImgW, ImgH) :
          /\ Dist2(p) = call.r * call.r
          /\ call.mask[p] = call.selected_idx
          /\ ret.mask[p] = call.selected_idx
    /\ \E p, q \in Pixels(ImgW, ImgH) :
          /\ Dist2(p) <= call.r * call.r
          /\ Dist2(q) > call.r * call.r
          /\ call.mask[p] \notin {0, call.selected_idx}
          /\ call.mask[q] = call.mask[p]
          /\ ret.mask[p] = 0
          /\ ret.mask[q] = call.mask[q]

\* C17: a paint dab applied a second time with the same centre, radius and
\* index leaves the mask the first application produced, and so does an erase
\* dab applied a second time with the same centre, radius, mode and
\* selection.
C17_DabIdempotent ==
    ret.fn \in {"_dab_set_index_again", "_dab_erase_again"} => ret.mask = ret.once

\* The first erase dab cleared a pixel and kept another nonzero one inside
\* its circle; the second one changed nothing.
C17_Witness ==
    /\ ret.fn = "_dab_erase_again"
    /\ \E p, q \in Pixels(ImgW, ImgH) :
          /\ Dist2(p) <= call.r * call.r
          /\ Dist2(q) <= call.r * call.r
          /\ call.mask[p] # 0 /\ ret.once[p] = 0
          /\ call.mask[q] # 0 /\ ret.once[q] = call.mask[q]
    /\ ret.mask = ret.once

(***************************************************************************)
(* The returns of the stroke handlers that leave the window as it is.      *)
(***************************************************************************)
\* on_stroke_started returns before _stroke_rec.begin: without a message
\* (no image, a tool that does not draw, a position outside the image, no
\* current layer) or after status.showMessage (no category selected).
on_stroke_started_returns(ix, iy) ==
    /\ start_ignored(ix, iy) \/ category_missing \/ current_layer = NoneId
    /\ last_op' = IF ~start_ignored(ix, iy) /\ category_missing
                  THEN "on_stroke_started_message"
                  ELSE "on_stroke_started_ignored"
    /\ UNCHANGED <<project_vars, render_vars, selection_vars, tool_vars, stroke_vars, undo_stack, ids,
                   history_vars, call_vars>>

\* on_stroke_moved returns: no stroke is active, the position is outside the
\* image or it is the last position.
on_stroke_moved_returns(ix, iy) ==
    /\ \/ ~_stroke_active
       \/ ~(0 <= ix /\ ix < image_width /\ 0 <= iy /\ iy < image_height)
       \/ <<ix, iy>> = _stroke_last
    /\ last_op' = "on_stroke_moved_ignored"
    /\ UNCHANGED <<project_vars, render_vars, selection_vars, tool_vars, stroke_vars, undo_stack, ids,
                   history_vars, call_vars>>

\* on_stroke_ended with an idle recorder and no active stroke: _stroke_active
\* and _stroke_last are set to the values they have.
on_stroke_ended_idle ==
    /\ ~is_active(_stroke_rec)
    /\ ~_stroke_active
    /\ _stroke_active' = FALSE
    /\ _stroke_last' = NoPoint
    /\ _stroke_rec' = _stroke_rec
    /\ last_op' = "on_stroke_ended_idle"
    /\ UNCHANGED <<project_vars, render_vars, selection_vars, tool_vars, undo_stack, ids,
                   history_vars, call_vars>>

\* Pointer positions of the presses and moves that may return: the corners
\* and a position right of the image.
PointerPositions == PointerPixels \cup {<<ImgW, 0>>}
PointerDownReturns ==
    ~_stroke_active /\ \E p \in PointerPositions : on_stroke_started_returns(p[1], p[2])
PointerMoveReturns == \E p \in PointerPositions : on_stroke_moved_returns(p[1], p[2])
PointerUpIdle == on_stroke_ended_idle

(***************************************************************************)
(* SpecStart: one layer; presses, moves and releases of the pointer in     *)
(* every tool state, with categories added, selected and deleted.          *)
(***************************************************************************)
NextStart ==
    \/ PointerDown
    \/ PointerDownReturns
    \/ PointerMove
    \/ PointerMoveReturns
    \/ PointerUp
    \/ PointerUpIdle
    \/ SetTool
    \/ SetEraseMode
    \/ SelectCategory
    \/ AddCategoryIdle
    \/ delete_category

SpecStart == Init /\ [][NextStart]_vars

\* C11: a press inside the image with the brush tool, or with the erase tool
\* in mode erase_only_category or erase_all_but_category, while no category
\* is selected ends with the status message and changes no mask byte, leaves
\* the recorder idle, no stroke active and the undo stack as it was; and
\* while no stroke is active, pointer moves and releases change neither the
\* mask nor the undo stack.
NeedsCategory ==
    \/ tool_mode = "brush"
    \/ tool_mode = "erase" /\ erase_mode # "erase_all"

C11_AbortStep ==
    /\ (/\ last_op' \in {"on_stroke_started", "on_stroke_started_message"}
        /\ NeedsCategory
        /\ current_category_id = NoneId) =>
           /\ last_op' = "on_stroke_started_message"
           /\ mask' = mask
           /\ _stroke_rec' = _stroke_rec
           /\ ~is_active(_stroke_rec')
           /\ ~_stroke_active'
           /\ undo_stack' = undo_stack
    /\ (/\ ~_stroke_active
        /\ last_op' \in {"on_stroke_moved", "on_stroke_moved_ignored", "on_stroke_ended",
                         "on_stroke_ended_push", "on_stroke_ended_idle"}) =>
           /\ mask' = mask
           /\ undo_stack' = undo_stack
           /\ ~_stroke_active'

C11_StartAborts == [][C11_AbortStep]_vars

\* A press with the erase tool in mode erase_all_but_category on a painted
\* mask, with a category in the layer and none selected, has ended with the
\* message.
C11_Witness ==
    /\ last_op = "on_stroke_started_message"
    /\ tool_mode = "erase"
    /\ erase_mode = "erase_all_but_category"
    /\ Len(categories[1]) >= 1
    /\ current_category_id = NoneId
    /\ mask[1] # BlankMask(ImgW, ImgH)
    /\ ~_stroke_active

(***************************************************************************)
(* SpecRestart: one layer; on_stroke_started may be called again while a   *)
(* stroke is recording (a press whose preceding release was not delivered  *)
(* to the canvas).                                                         *)
(***************************************************************************)
PointerDownAgain ==
    _stroke_active /\ \E p \in PointerPixels : on_stroke_started(p[1], p[2])

NextRestart ==
    \/ PointerDown
    \/ PointerDownAgain
    \/ PointerMove
    \/ PointerUp
    \/ UndoIdle
    \/ RedoIdle
    \/ SetTool
    \/ SetBrushRadius
    \/ SelectCategory
    \/ AddCategoryIdle

SpecRestart == Init /\ [][NextRestart]_vars

\* C12: a call of on_stroke_started while the recorder is recording keeps
\* the recorder's layer id and its captured 'before' tiles and changes no
\* mask byte.
C12_RejectStep ==
    (last_op' = "on_stroke_started" /\ is_active(_stroke_rec)) =>
        /\ _stroke_rec'.layer_id = _stroke_rec.layer_id
        /\ \A k \in DOMAIN _stroke_rec.tiles_before :
              /\ k \in DOMAIN _stroke_rec'.tiles_before
              /\ _stroke_rec'.tiles_before[k] = _stroke_rec.tiles_before[k]
        /\ mask' = mask

C12_OneStrokeRecords == [][C12_RejectStep]_vars

\* A second start has run while a stroke was recording: the recorder holds
\* 'before' bytes that are not the mask at the start of the first stroke.
C12_Witness ==
    /\ last_op = "on_stroke_started"
    /\ n_strokes = 2
    /\ undo_stack.cmds = << >>
    /\ \E k \in DOMAIN _stroke_rec.tiles_before :
          \E i \in 1 .. Len(_stroke_rec.tiles_before[k]) :
              _stroke_rec.tiles_before[k][i] # 0

(***************************************************************************)
(* EditService.probe_at.                                                   *)
(*                                                                         *)
(* A category of the probed layer is [index, name] and an entity is        *)
(* [name, x2, y2].  A name stands for a string: names are compared only    *)
(* for equality and order, so a name is its rank in the order of strings.  *)
(* Entity coordinates are floats that are whole or half pixels (add_entity *)
(* stores image_width / 2, place_entity_point stores ints); x2 and y2 are  *)
(* twice the coordinate.  A percentage (cnt / total) * 100.0 is the        *)
(* fraction [num, den] = [100 * cnt, total]; for the totals a probe of     *)
(* radius <= 100 can reach, the float comparisons of the program agree     *)
(* with the exact ones.                                                    *)
(***************************************************************************)
\* Names drawn for categories, and entities in the probed layer.
MaxNames == 2
MaxProbeEnts == 2
\* A probe that samples 500 pixels, or 499 with the centre one row higher.
BigW == 20
BigH == 25
BigRadius == 16
BigX == 9
BigY == 11

\* f"Unknown({idx})": the names drawn sort before it.
Unknown(idx) == MaxNames + idx

\* {c.index: c.name for c in layer.categories}.get(idx, f"Unknown({idx})"):
\* a later category of the same index replaces an earlier one.
idx_to_name(cats, idx) ==
    LET S == {i \in 1 .. Len(cats) : cats[i].index = idx}
    IN  IF S = {} THEN Unknown(idx) ELSE cats[CHOOSE i \in S : \A j \in S : j <= i].name

\* Mutation of probe_sampled: every pixel of the clamped box is sampled.
probe_sampled_box(dx, dy, rr) == dx * dx + dy * dy <= 2 * rr

\* not (dx * dx + dy * dy > rr)
probe_sampled(dx, dy, rr) == ~(dx * dx + dy * dy > rr)

\* The inner loop, for xx in range(x0, x1 + 1), on row yy: the bytes
\* int(mbytes[row + xx]) of the pixels not skipped, in the order read.
RECURSIVE probe_row(_, _, _, _, _, _, _)
probe_row(mbytes, x1, x, y, rr, yy, xx) ==
    IF xx > x1
    THEN << >>
    ELSE (IF probe_sampled(xx - x, yy - y, rr) THEN <<mbytes[<<xx, yy>>]>> ELSE << >>)
             \o probe_row(mbytes, x1, x, y, rr, yy, xx + 1)

\* The outer loop, for yy in range(y0, y1 + 1).
RECURSIVE probe_scan(_, _, _, _, _, _, _, _)
probe_scan(mbytes, x0, x1, y1, x, y, rr, yy) ==
    IF yy > y1
    THEN << >>
    ELSE probe_row(mbytes, x1, x, y, rr, yy, x0)
             \o probe_scan(mbytes, x0, x1, y1, x, y, rr, yy + 1)

\* counts after counts[idx] = counts.get(idx, 0) + 1 for every nonzero idx
\* read: a dict keeps its keys in the order of their first insertion, so
\* counts.items() is the sequence of the nonzero bytes read, each at the
\* place of its first reading, with the number of times it was read.
counts_items(read) ==
    LET keys == {read[i] : i \in 1 .. Len(read)} \ {0}
        first(idx) == CHOOSE i \in 1 .. Len(read) :
                          /\ read[i] = idx
                          /\ \A j \in 1 .. i - 1 : read[j] # idx
        place(idx) == 1 + Cardinality({k \in keys : first(k) < first(idx)})
    IN  [n \in 1 .. Cardinality(keys) |->
            LET idx == CHOOSE k \in keys : place(k) = n
            IN  [idx |-> idx, cnt |-> Cardinality({i \in 1 .. Len(read) : read[i] = idx})]]

\* Mutation of pct_reported: a percentage of exactly 0.2 is reported too.
pct_reported_from(pct) == 10 * pct.num >= 2 * pct.den

\* pct > 0.2
pct_reported(pct) == 10 * pct.num > 2 * pct.den

\* The loop over counts.items(): the (pct, name) tuples in dict order.
RECURSIVE probe_tuples(_, _, _, _)
probe_tuples(counts, total, cats, i) ==
    IF i > Len(counts)
    THEN << >>
    ELSE LET pct == [num |-> 100 * counts[i].cnt, den |-> total]
             name == idx_to_name(cats, counts[i].idx)
         IN  (IF pct_reported(pct) THEN <<[pct |-> pct, name |-> name]>> ELSE << >>)
                 \o probe_tuples(counts, total, cats, i + 1)

\* Mutation of tuple_less: the names are not compared.
tuple_less_by_pct(a, b) == a.pct.num * b.pct.den < b.pct.num * a.pct.den

\* a < b on tuples (pct, name): by pct, then by name.
tuple_less(a, b) ==
    \/ a.pct.num * b.pct.den < b.pct.num * a.pct.den
    \/ /\ a.pct.num * b.pct.den = b.pct.num * a.pct.den
       /\ a.name < b.name

\* list.sort(reverse=True): descending; tuples that compare equal keep the
\* order they had.
RECURSIVE sort_reverse(_)
sort_reverse(s) ==
    IF s = << >>
    THEN s
    ELSE LET e == s[Len(s)]
             sorted == sort_reverse(SubSeq(s, 1, Len(s) - 1))
             n == Cardinality({i \in 1 .. Len(sorted) : ~tuple_less(sorted[i], e)})
         IN  SubSeq(sorted, 1, n) \o <<e>> \o SubSeq(sorted, n + 1, Len(sorted))

\* Mutation of entity_in_radius: an entity exactly on the radius is left out.
entity_inside_radius(e, x, y, rr) ==
    (e.x2 - 2 * x) * (e.x2 - 2 * x) + (e.y2 - 2 * y) * (e.y2 - 2 * y) < 4 * rr

\* dx * dx + dy * dy <= rr with dx = e.x - x, dy = e.y - y, in half pixels.
entity_in_radius(e, x, y, rr) ==
    (e.x2 - 2 * x) * (e.x2 - 2 * x) + (e.y2 - 2 * y) * (e.y2 - 2 * y) <= 4 * rr

\* The loop over layer.entities.
RECURSIVE probe_entities(_, _, _, _, _)
probe_entities(ents, x, y, rr, i) ==
    IF i > Len(ents)
    THEN << >>
    ELSE (IF entity_in_radius(ents[i], x, y, rr) THEN <<ents[i].name>> ELSE << >>)
             \o probe_entities(ents, x, y, rr, i + 1)

\* probe_at on a layer (None, or a layer with mask mbytes, categories cats
\* and entities ents) of a w x h image, with probe_radius = r.
probe_at(layer, mbytes, w, h, cats, ents, x, y, r) ==
    IF layer = NoneId \/ r <= 0
    THEN [results |-> << >>, ents |-> << >>]
    ELSE LET x0 == Max(0, x - r)
             x1 == Min(w - 1, x + r)
             y0 == Max(0, y - r)
             y1 == Min(h - 1, y + r)
             read == probe_scan(mbytes, x0, x1, y1, x, y, r * r, y0)
             total == Len(read)
         IN  [results |-> IF total > 0
                          THEN sort_reverse(probe_tuples(counts_items(read), total, cats, 1))
                          ELSE << >>,
              ents |-> probe_entities(ents, x, y, r * r, 1)]

(***************************************************************************)
(* SpecProbe: one probe of a layer, drawn by the initial state.            *)
(***************************************************************************)
\* layer.categories: add_category gives every category an index of its own.
ProbeCategories ==
    {<< >>}
        \cup {<<[index |-> i, name |-> n]>> : i \in 1 .. MaxCats, n \in 1 .. MaxNames}
        \cup {<<[index |-> ij[1], name |-> n], [index |-> ij[2], name |-> m]>> :
                 ij \in {ij \in (1 .. MaxCats) \X (1 .. MaxCats) : ij[1] # ij[2]},
                 n \in 1 .. MaxNames, m \in 1 .. MaxNames}

\* Where an entity is: the middle of the image (add_entity), or a pixel that
\* was clicked (place_entity_point).
EntityPositions2 ==
    {<<ImgW, ImgH>>, <<0, 0>>, <<2, 0>>, <<2 * (ImgW - 1), 2 * (ImgH - 1)>>}

\* layer.entities: entity number i has name i.
ProbeEntities ==
    UNION {[1 .. n -> EntityPositions2] : n \in 0 .. MaxProbeEnts}

EntityList(ps) == [i \in DOMAIN ps |-> [name |-> i, x2 |-> ps[i][1], y2 |-> ps[i][2]]]

\* on_mouse_clicked probes at a pixel of the image; the spin box keeps
\* probe_radius >= 1.  The category list is read by the pixel scan only and
\* the entity list by the entity scan only: the probes drawn vary one of
\* the two lists at a time.
ProbeCalls ==
    {[fn |-> "probe_at", layer |-> 1, mask |-> m, w |-> ImgW, h |-> ImgH,
      cats |-> ce[1], ents |-> EntityList(ce[2]), x |-> p[1], y |-> p[2], r |-> r] :
        m \in PatternMasks,
        ce \in (ProbeCategories \X {<< >>}) \cup ({<< >>} \X ProbeEntities),
        p \in Pixels(ImgW, ImgH), r \in 1 .. MaxRadius}

\* A probe while there is no current layer.
ProbeNoLayerCalls ==
    {[fn |-> "probe_at", layer |-> NoneId, mask |-> BlankMask(ImgW, ImgH),
      w |-> ImgW, h |-> ImgH, cats |-> << >>, ents |-> << >>,
      x |-> p[1], y |-> p[2], r |-> r] :
        p \in Pixels(ImgW, ImgH), r \in 1 .. MaxRadius}

\* A mask of the big image: label 1 at one pixel, bg everywhere else.
BigMask(bg) ==
    [p \in Pixels(BigW, BigH) |-> IF p = <<BigX, BigY>> THEN 1 ELSE bg]

\* Probes of the big image around its marked pixel.
BigProbeCalls ==
    {[fn |-> "probe_at", layer |-> 1, mask |-> BigMask(bg), w |-> BigW, h |-> BigH,
      cats |-> cs, ents |-> << >>, x |-> BigX, y |-> y, r |-> BigRadius] :
        bg \in {0, 2}, cs \in ProbeCategories, y \in {BigY, BigY + 1}}

\* paint_at with the selected category of the layer (number c of its list)
\* and brush_radius = r, then probe_at at the same pixel with
\* probe_radius = r.
PaintProbeCalls ==
    {[fn |-> "paint_at_probe_at", layer |-> 1, mask |-> m, w |-> ImgW, h |-> ImgH,
      cats |-> cc[1], c |-> cc[2], ents |-> << >>, x |-> p[1], y |-> p[2], r |-> r] :
        m \in PatternMasks,
        cc \in {cc \in ProbeCategories \X (1 .. MaxCats) : cc[2] <= Len(cc[1])},
        p \in Pixels(ImgW, ImgH), r \in 1 .. MaxRadius}

InitProbe ==
    /\ InitMachine
    /\ call \in ProbeCalls \cup ProbeNoLayerCalls \cup BigProbeCalls \cup PaintProbeCalls
    /\ ret = NoRet

\* probe_at assigns to nothing: the mask and the entities of the layer are
\* after the call what they were.
call_probe_at ==
    /\ call.fn = "probe_at"
    /\ ret = NoRet
    /\ LET res == probe_at(call.layer, call.mask, call.w, call.h, call.cats, call.ents,
                           call.x, call.y, call.r)
       IN  ret' = [fn |-> "probe_at", results |-> res.results, ents |-> res.ents,
                   mask |-> call.mask, entities |-> call.ents]
    /\ UNCHANGED <<project_vars, render_vars, selection_vars, tool_vars, stroke_vars, undo_stack, ids,
                   last_op, history_vars, call>>

call_paint_at_probe_at ==
    /\ call.fn = "paint_at_probe_at"
    /\ ret = NoRet
    /\ LET painted == paint_at(call.mask, call.w, call.h, call.x, call.y, call.r,
                               call.cats[call.c].index)
           res == probe_at(call.layer, painted.mask, call.w, call.h, call.cats, call.ents,
                           call.x, call.y, call.r)
       IN  ret' = [fn |-> "paint_at_probe_at", results |-> res.results, ents |-> res.ents,
                   mask |-> painted.mask, entities |-> call.ents]
    /\ UNCHANGED <<project_vars, render_vars, selection_vars, tool_vars, stroke_vars, undo_stack, ids,
                   last_op, history_vars, call>>

NextProbe ==
    \/ call_probe_at
    \/ call_paint_at_probe_at

SpecProbe == InitProbe /\ [][NextProbe]_vars

\* The pixels of the probed image inside the circle of the call.
Sampled == {p \in Pixels(call.w, call.h) : Dist2(p) <= call.r * call.r}
SampledCount(l) == Cardinality({p \in Sampled : call.mask[p] = l})

\* The nonzero labels whose share of the sampled pixels is above 0.2 %.
ReportedLabels ==
    {l \in Bytes \ {0} : 1000 * SampledCount(l) > 2 * Cardinality(Sampled)}

\* C13: a probe at (x, y) with r > 0 reports, for each nonzero label l found
\* among the pixels of the image at squared distance <= r^2, the value
\* 100 * count(l) / total, where total counts the pixels of the image inside
\* the circle; exactly the labels with a value strictly above 0.2 are
\* reported, label 0 never is, and the list is in non-increasing order of
\* percentage.
C13_ProbeCategories ==
    (ret.fn = "probe_at" /\ call.layer # NoneId /\ call.r > 0) =>
        /\ Len(ret.results) = Cardinality(ReportedLabels)
        /\ \A l \in ReportedLabels :
              \E i \in 1 .. Len(ret.results) :
                  /\ ret.results[i].pct = [num |-> 100 * SampledCount(l),
                                           den |-> Cardinality(Sampled)]
                  /\ ret.results[i].name = idx_to_name(call.cats, l)
        /\ \A i \in 1 .. Len(ret.results) :
              \E l \in ReportedLabels :
                  /\ ret.results[i].pct = [num |-> 100 * SampledCount(l),
                                           den |-> Cardinality(Sampled)]
                  /\ ret.results[i].name = idx_to_name(call.cats, l)
        /\ \A i \in 1 .. Len(ret.results) - 1 :
              ret.results[i].pct.num >= ret.results[i + 1].pct.num

\* A probe whose circle is cut by the image has sampled 500 pixels, one of
\* them with label 1 and all others with label 2: label 1, at exactly 0.2 %,
\* is not reported, label 2 is.
C13_Witness ==
    /\ ret.fn = "probe_at"
    /\ Cardinality(Sampled) = 500
    /\ Cardinality(Sampled) < (2 * call.r + 1) * (2 * call.r + 1)
    /\ SampledCount(1) = 1
    /\ SampledCount(2) = 499
    /\ Len(ret.results) = 1
    /\ ret.results[1].pct = [num |-> 49900, den |-> 500]

\* The place of label l in the scan: the number, rows first, of the first
\* sampled pixel that holds it.
Discovered(l) ==
    LET at == {p[2] * call.w + p[1] : p \in {q \in Sampled : call.mask[q] = l}}
    IN  CHOOSE k \in at : \A j \in at : k <= j

\* The place in the result of the entry of a reported label whose name no
\* other reported label has.
ResultPlace(l) ==
    CHOOSE i \in 1 .. Len(ret.results) :
        ret.results[i].name = idx_to_name(call.cats, l)

\* Two reported labels of categories of the layer, with exactly equal
\* percentages and different names.
Tied(l, m) ==
    /\ l \in ReportedLabels
    /\ m \in ReportedLabels
    /\ \E i, j \in 1 .. Len(call.cats) : call.cats[i].index = l /\ call.cats[j].index = m
    /\ SampledCount(l) = SampledCount(m)
    /\ idx_to_name(call.cats, l) # idx_to_name(call.cats, m)

\* C14 as claimed: two categories with exactly equal percentages appear in
\* the order in which the scan discovered them, whatever their names.
C14_TiesInDiscoveryOrder ==
    ret.fn = "probe_at" =>
        \A l, m \in ReportedLabels :
            (Tied(l, m) /\ Discovered(l) < Discovered(m)) => ResultPlace(l) < ResultPlace(m)

\* C14: two entries with exactly equal percentages appear in descending
\* order of their names, whatever the order in which the scan discovered
\* their labels.
C14_TiesByNameDescending ==
    ret.fn = "probe_at" =>
        \A i, j \in 1 .. Len(ret.results) :
            (i < j /\ ret.results[i].pct = ret.results[j].pct) =>
                ret.results[i].name >= ret.results[j].name

\* Two labels are tied, and the one discovered first, which has the smaller
\* name, comes second in the result.
C14_Witness ==
    /\ ret.fn = "probe_at"
    /\ \E l, m \in ReportedLabels :
          /\ Tied(l, m)
          /\ Discovered(l) < Discovered(m)
          /\ idx_to_name(call.cats, l) < idx_to_name(call.cats, m)
          /\ ResultPlace(m) < ResultPlace(l)

\* The entities of the probed layer within the radius of the call.
InRadius ==
    {i \in 1 .. Len(call.ents) :
        (call.ents[i].x2 - 2 * call.x) * (call.ents[i].x2 - 2 * call.x)
            + (call.ents[i].y2 - 2 * call.y) * (call.ents[i].y2 - 2 * call.y)
                <= 4 * call.r * call.r}

C16_PaintThenProbe ==
    ret.fn = "paint_at_probe_at" =>
        /\ Len(ret.results) = 1
        /\ ret.results[1].name = call.cats[call.c].name
        /\ ret.results[1].pct.num = 100 * ret.results[1].pct.den
        /\ ret.results[1].pct.den = Cardinality(Sampled)

\* The circle is cut by the image; before the dab it held a label of another
\* category and a blank pixel, and its box holds a pixel outside the circle
\* with another label.
C16_Witness ==
    /\ ret.fn = "paint_at_probe_at"
    /\ call.x - call.r < 0
    /\ \E p, q \in Sampled :
          /\ call.mask[p] = 0
          /\ call.mask[q] \notin {0, call.cats[call.c].index}
    /\ \E p \in Pixels(call.w, call.h) :
          /\ Abs(p[1] - call.x) <= call.r /\ Abs(p[2] - call.y) <= call.r
          /\ p \notin Sampled
          /\ ret.mask[p] \notin {0, call.cats[call.c].index}
    /\ Len(ret.results) = 1

(***************************************************************************)
(* SpecSegment: one brush segment on the blank mask of a SegW x SegH       *)
(* image, between two pixels of the image.  The window is as after         *)
(* add_category, the choice of the brush tool and of a brush radius; no    *)
(* stroke is recorded.                                                     *)
(***************************************************************************)
SegW == 6
SegH == 4
MaxSegRadius == 4

SegmentCalls ==
    {[fn |-> "_apply_stroke_segment", x0 |-> a[1], y0 |-> a[2], x1 |-> b[1], y1 |-> b[2]] :
        a \in Pixels(SegW, SegH), b \in Pixels(SegW, SegH)}

InitSegment ==
    /\ image_path = TRUE
    /\ image_width = SegW
    /\ image_height = SegH
    /\ layers = <<1>>
    /\ categories = [l \in LayerIds |->
                        IF l = 1
                        THEN <<[id |-> 1, index |-> 1, color |-> DefaultColor]>>
                        ELSE << >>]
    /\ entities = [l \in LayerIds |-> << >>]
    /\ mask_index_png_b64 = [l \in LayerIds |-> NoB64]
    /\ Rendered([show_layer_overlay(NewProject(SegW, SegH), NewRenderer(SegW, SegH), 1)
                    EXCEPT !.lut[1] = invalidate_lut(@)])
    /\ current_layer_id = 1
    /\ current_category_id = 1
    /\ current_entity_id = NoneId
    /\ tool_mode = "brush"
    /\ brush_radius \in 1 .. MaxSegRadius
    /\ erase_radius = 1
    /\ erase_mode = "erase_all"
    /\ _stroke_active = FALSE
    /\ _stroke_last = NoPoint
    /\ _stroke_rec = NewRecorder
    /\ undo_stack = [cmds |-> << >>, index |-> 0]
    /\ ids = [layer |-> 1, category |-> 1, entity |-> 0]
    /\ last_op = "init"
    /\ h_start = << >>
    /\ h_undo = << >>
    /\ n_strokes = 0
    /\ n_moves = 0
    /\ call \in SegmentCalls
    /\ ret = NoRet

\* ret keeps the list points of the call.
call_apply_stroke_segment ==
    /\ call.fn = "_apply_stroke_segment"
    /\ ret = NoRet
    /\ LET seg == _apply_stroke_segment(_stroke_rec, call.x0, call.y0, call.x1, call.y1)
       IN  /\ Renders(AfterSegment(seg))
           /\ _stroke_rec' = seg.rec
    /\ ret' = [fn |-> "_apply_stroke_segment",
               points |-> SegmentPoints(call.x0, call.y0, call.x1, call.y1, brush_radius)]
    /\ last_op' = "_apply_stroke_segment"
    /\ UNCHANGED <<image_vars, layers, categories, entities,
                   selection_vars, tool_vars, _stroke_active, _stroke_last, undo_stack, ids,
                   history_vars, call>>

NextSegment == call_apply_stroke_segment

SpecSegment == InitSegment /\ [][NextSegment]_vars

\* The pixels of the image a dab of the segment's radius at centre c covers.
Stamp(c) ==
    {p \in Pixels(SegW, SegH) :
        (p[1] - c[1]) * (p[1] - c[1]) + (p[2] - c[2]) * (p[2] - c[2])
            <= brush_radius * brush_radius}

EdgeAdjacent(p, q) == Abs(p[1] - q[1]) + Abs(p[2] - q[2]) = 1

\* C18: a brush segment between two pixels of the image with radius r >= 1
\* leaves no gaps: the pixels painted by two consecutive stamps overlap or
\* are edge-adjacent, both end points are painted, and after a horizontal
\* segment every pixel between its end points holds the painted index.
C18_NoGaps ==
    ret.fn = "_apply_stroke_segment" =>
        /\ \A i \in 1 .. Len(ret.points) - 1 :
              \/ Stamp(ret.points[i]) \cap Stamp(ret.points[i + 1]) # {}
              \/ \E p \in Stamp(ret.points[i]), q \in Stamp(ret.points[i + 1]) :
                     EdgeAdjacent(p, q)
        /\ \A i \in 1 .. Len(ret.points) : \A p \in Stamp(ret.points[i]) : mask[1][p] = 1
        /\ mask[1][<<call.x0, call.y0>>] = 1
        /\ mask[1][<<call.x1, call.y1>>] = 1
        /\ call.y0 = call.y1 =>
              \A x \in Min(call.x0, call.x1) .. Max(call.x0, call.x1) :
                  mask[1][<<x, call.y0>>] = 1

\* A horizontal segment across the whole image with radius 1 has been
\* painted with one stamp per pixel, and a pixel away from it is blank.
C18_Witness ==
    /\ ret.fn = "_apply_stroke_segment"
    /\ brush_radius = 1
    /\ call.y0 = call.y1
    /\ Abs(call.x1 - call.x0) = SegW - 1
    /\ Len(ret.points) = SegW
    /\ \E p \in Pixels(SegW, SegH) : mask[1][p] = 0

\* Twice the step, max(2, r), and the number n of steps of the segment.
TwiceStep == Max(2, brush_radius)
Dist2Segment ==
    (call.x1 - call.x0) * (call.x1 - call.x0) + (call.y1 - call.y0) * (call.y1 - call.y0)
StepsTaken == Len(ret.points) - 1

\* Point number i of the list is the rounding of the point at i - 1 n-ths of
\* the straight segment.
OnSegment(i) ==
    LET n == StepsTaken
        X == call.x0 * n + (call.x1 - call.x0) * (i - 1)
        Y == call.y0 * n + (call.y1 - call.y0) * (i - 1)
    IN  /\ 2 * Abs(n * ret.points[i][1] - X) <= n
        /\ 2 * Abs(n * ret.points[i][2] - Y) <= n

\* The stamps are exactly the dabs at the points: the pixels that hold the
\* index afterwards are those of the stamps.
OneDabPerPoint ==
    \A p \in Pixels(SegW, SegH) :
        mask[1][p] = 1 <=> \E i \in 1 .. Len(ret.points) : p \in Stamp(ret.points[i])

\* C19 as claimed: the points start at (x0, y0), end at (x1, y1), lie on the
\* straight segment at a spacing, before rounding, of at most
\* max(1, r * 0.5), and one dab is applied per point.
C19_SpacingAtMostStep ==
    (ret.fn = "_apply_stroke_segment" /\ Dist2Segment > 0) =>
        /\ ret.points[1] = <<call.x0, call.y0>>
        /\ ret.points[Len(ret.points)] = <<call.x1, call.y1>>
        /\ \A i \in 1 .. Len(ret.points) : OnSegment(i)
        /\ 4 * Dist2Segment <= (StepsTaken * TwiceStep) * (StepsTaken * TwiceStep)
        /\ OneDabPerPoint

\* C19: the points start at (x0, y0), end at (x1, y1) and are the roundings
\* of n + 1 equally spaced points of the straight segment, with
\* n = max(1, floor(dist / step)) and step = max(1, r * 0.5): the spacing
\* before rounding is less than 2 * step, and at least step when the segment
\* is at least step long; one dab is applied per point.
C19_Resampling ==
    (ret.fn = "_apply_stroke_segment" /\ Dist2Segment > 0) =>
        /\ ret.points[1] = <<call.x0, call.y0>>
        /\ ret.points[Len(ret.points)] = <<call.x1, call.y1>>
        /\ \A i \in 1 .. Len(ret.points) : OnSegment(i)
        /\ Dist2Segment < (StepsTaken * TwiceStep) * (StepsTaken * TwiceStep)
        /\ 4 * Dist2Segment >= TwiceStep * TwiceStep =>
              4 * Dist2Segment >= (StepsTaken * TwiceStep) * (StepsTaken * TwiceStep)
        /\ OneDabPerPoint

\* A segment of several steps whose spacing is above the step, with a point
\* that was rounded.
C19_Witness ==
    /\ ret.fn = "_apply_stroke_segment"
    /\ StepsTaken >= 2
    /\ 4 * Dist2Segment > (StepsTaken * TwiceStep) * (StepsTaken * TwiceStep)
    /\ \E i \in 1 .. Len(ret.points) :
          StepsTaken * ret.points[i][1] # call.x0 * StepsTaken + (call.x1 - call.x0) * (i - 1)

(***************************************************************************)
(* SpecLut: categories are added with a colour, renamed, selected and      *)
(* deleted, before and after a project file is loaded.                     *)
(***************************************************************************)
\* rename_category: the new name is stored in the selected category (names
\* are not part of the state), and notify_project_changed shows the layer.
rename_category ==
    /\ current_layer # NoneId
    /\ current_category_id # NoneId
    /\ \E i \in 1 .. Len(categories[current_layer]) :
          categories[current_layer][i].id = current_category_id
    /\ Renders(refresh_scene_for_selection(Project, Renderer, current_layer_id))
    /\ last_op' = "rename_category"
    /\ UNCHANGED <<kept_vars, selection_vars, tool_vars, stroke_vars, undo_stack, ids,
                   history_vars, call_vars>>

AddCategoryColored == \E color \in Colors : add_category_colored(color)

\* The files drawn: those of FileCategories, each category with a colour.
ColoredFileCategories ==
    UNION {{[i \in DOMAIN cds |-> [cds[i] EXCEPT !.color = cs[i]]] :
               cs \in [DOMAIN cds -> Colors]} : cds \in FileCategories}

InitLut ==
    /\ InitMachine
    /\ call \in {[fn |-> "dict_to_project", categories |-> cds] : cds \in ColoredFileCategories}
    /\ ret = NoRet

NextLut ==
    \/ load_project_json
    \/ AddCategoryColored
    \/ rename_category
    \/ delete_category
    \/ SelectCategory

SpecLut == InitLut /\ [][NextLut]_vars

OverlayCategories ==
    {<< >>,
     <<[id |-> 1, index |-> 1, color |-> DefaultColor]>>,
     <<[id |-> 1, index |-> 2, color |-> OpaqueRed],
       [id |-> 2, index |-> 1, color |-> DefaultColor]>>}

OverlayMasks == {PatternMask(a, b, c) : a \in 0 .. 1, b \in 0 .. 1, c \in Bytes}

SolidImage(w, h, color) == [w |-> w, h |-> h, px |-> [p \in Pixels(w, h) |-> color]]

OverlayImages ==
    {NoImage, SolidImage(ImgW, ImgH, Transparent), SolidImage(ImgW, ImgH, OpaqueRed),
     SolidImage(ImgW - 1, ImgH, OpaqueRed)}

\* Rects inside, across and outside the image, and with no width or height.
DirtyRects ==
    {QRect(x, y, w, h) : x \in {-1, 1, ImgW}, y \in {-1, 0, ImgH},
                         w \in {0, 2, ImgW + 2}, h \in {0, 1, ImgH + 1}}

\* The layer is pending with a rect and a running timer, or nothing is.
PendingStates ==
    {[pending |-> {}, rects |-> [l \in LayerIds |-> NoRect], timer |-> FALSE],
     [pending |-> {1}, rects |-> [l \in LayerIds |-> IF l = 1 THEN QRect(0, 0, 1, 1) ELSE NoRect],
      timer |-> TRUE]}

UpdateOverlayCalls ==
    {[fn |-> "update_layer_overlay",
      p |-> [NewProject(ImgW, ImgH) EXCEPT !.categories[1] = cats],
      rs |-> [NewRenderer(ImgW, ImgH) EXCEPT
                 !.mask[1] = m,
                 !.lut[1] = IF cached THEN category_lut_rgba(NoLut, cats) ELSE NoLut,
                 !.overlay[1] = img,
                 !.pending = pend.pending,
                 !.rects = pend.rects,
                 !.timer = pend.timer],
      dirty_rect |-> dr] :
        cats \in OverlayCategories, m \in OverlayMasks, cached \in BOOLEAN,
        img \in OverlayImages, pend \in PendingStates, dr \in DirtyRects}

InitOverlay ==
    /\ InitMachine
    /\ call \in UpdateOverlayCalls
    /\ ret = NoRet

call_update_layer_overlay ==
    /\ call.fn = "update_layer_overlay"
    /\ ret = NoRet
    /\ ret' = [fn |-> "update_layer_overlay",
               rs |-> update_layer_overlay(call.p, call.rs, 1, call.dirty_rect)]
    /\ UNCHANGED <<project_vars, render_vars, selection_vars, tool_vars, stroke_vars,
                   undo_stack, ids, last_op, history_vars, call>>

NextOverlay == call_update_layer_overlay

SpecOverlay == InitOverlay /\ [][NextOverlay]_vars

\* The colour of the category of the list with index b, or transparent.
ColorOf(cats, b) ==
    IF \E k \in 1 .. Len(cats) : cats[k].index = b
    THEN cats[CHOOSE k \in 1 .. Len(cats) : cats[k].index = b].color
    ELSE Transparent

ClampedRect == clamp_rect_to_image(call.dirty_rect, call.p.image_width, call.p.image_height)

HasImageSize(img) ==
    img # NoImage /\ img.w = call.p.image_width /\ img.h = call.p.image_height

\* The mask is as before and every pixel of the clamped rect holds the
\* colour of its mask byte.
CompositedInRect ==
    /\ ret.rs.mask = call.rs.mask
    /\ \A q \in Pixels(call.p.image_width, call.p.image_height) :
          InRect(q, ClampedRect) =>
              ret.rs.overlay[1].px[q] = ColorOf(call.p.categories[1], call.rs.mask[1][q])

PendingUnchanged ==
    /\ ret.rs.pending = call.rs.pending
    /\ ret.rs.rects = call.rs.rects
    /\ ret.rs.timer = call.rs.timer

\* C21 as stated: after update_layer_overlay(layer, rect) every pixel of the
\* clamped rect holds lut[mask[p]] and the mask is not modified; if the
\* clamped rect is empty, neither the overlay nor the pending-flush state
\* has changed.
C21_EmptyRectChangesNothing ==
    ret.fn = "update_layer_overlay" =>
        /\ CompositedInRect
        /\ isEmpty(ClampedRect) =>
              ret.rs.overlay = call.rs.overlay /\ PendingUnchanged

\* C21, amended: after update_layer_overlay(layer, rect) every pixel of the
\* clamped rect holds lut[mask[p]], the pixels of the overlay outside it are
\* as before if the layer had an overlay image of the image's size and
\* transparent otherwise, and the mask is not modified; if the clamped rect
\* is empty the pending-flush state has not changed, and the overlay has not
\* changed provided the layer had an overlay image of the image's size
\* (otherwise a transparent image of that size has replaced it).  If the
\* clamped rect is not empty the layer is pending and the timer is active.
C21_UpdateLayerOverlay ==
    ret.fn = "update_layer_overlay" =>
        /\ CompositedInRect
        /\ ret.rs.overlay[1].w = call.p.image_width
        /\ ret.rs.overlay[1].h = call.p.image_height
        /\ \A q \in Pixels(call.p.image_width, call.p.image_height) :
              ~InRect(q, ClampedRect) =>
                  ret.rs.overlay[1].px[q] = IF HasImageSize(call.rs.overlay[1])
                                            THEN call.rs.overlay[1].px[q]
                                            ELSE Transparent
        /\ isEmpty(ClampedRect) => PendingUnchanged
        /\ ~isEmpty(ClampedRect) => 1 \in ret.rs.pending /\ ret.rs.timer

\* A rect that lies across the border of the image was recomposited over a
\* red overlay: inside the clamped rect a pixel has turned to the colour of
\* its category, outside it a pixel is still red.
C21_Witness ==
    /\ ret.fn = "update_layer_overlay"
    /\ call.dirty_rect = QRect(-1, -1, 2, ImgH + 1)
    /\ call.rs.overlay[1] = SolidImage(ImgW, ImgH, OpaqueRed)
    /\ ret.rs.overlay[1].px[<<0, 0>>] = DefaultColor
    /\ ret.rs.overlay[1].px[<<1, 0>>] = OpaqueRed

(***************************************************************************)
(* The flush timer, image import and saving.                               *)
(***************************************************************************)
\* The images imported after the first have the size of the first or are
\* narrower; all have its height, hence one bytesPerLine for every mask.
SmallW == 1
ImageSizes == {<<ImgW, ImgH>>, <<SmallW, ImgH>>}

\* The single-shot timer fires: it is inactive when its slot,
\* _flush_pending_pixmaps, runs.
_flush_timer_timeout ==
    /\ _flush_timer
    /\ Renders([_flush_pending_pixmaps(Project, Renderer) EXCEPT !.timer = FALSE])
    /\ last_op' = "_flush_pending_pixmaps"
    /\ UNCHANGED <<kept_vars, selection_vars, tool_vars, stroke_vars, undo_stack, ids,
                   history_vars, call_vars>>

\* The masks after ensure_layer_index_mask has run on the layers lids.
RECURSIVE EnsureMasks(_, _, _)
EnsureMasks(p, rs, lids) ==
    IF lids = {}
    THEN rs
    ELSE LET lid == CHOOSE l \in lids : TRUE
         IN  EnsureMasks(p,
                 [rs EXCEPT !.mask[lid] =
                     ensure_layer_index_mask(rs.mask[lid], p.b64[lid],
                                             p.image_width, p.image_height).mask],
                 lids \ {lid})

\* import_image of a readable image file of w x h pixels, chosen in the file
\* dialog: the scene and the overlay items are cleared, every layer of the
\* project gets a mask, and notify_project_changed shows the current layer.
\* The layers keep their overlay images and colour tables, and the undo
\* stack keeps its commands.
import_image(w, h) ==
    /\ ~_stroke_active
    /\ image_path' = TRUE
    /\ image_width' = w
    /\ image_height' = h
    /\ LET p == [Project EXCEPT !.image_path = TRUE, !.image_width = w, !.image_height = h]
           ensured == EnsureMasks(p, clear_overlay_items(Renderer),
                                  {layers[i] : i \in 1 .. Len(layers)})
       IN  Renders(refresh_scene_for_selection(p, ensured, current_layer_id))
    /\ last_op' = "import_image"
    /\ UNCHANGED <<mask_index_png_b64, layers, categories, entities, selection_vars,
                   tool_vars, stroke_vars, undo_stack, ids, history_vars, call_vars>>

ImportImage == \E size \in ImageSizes : import_image(size[1], size[2])

\* save_project_json with a path: encode_all_masks_to_b64 stores the mask of
\* every layer of the project in its mask_index_png_b64.
save_project_json ==
    /\ ~_stroke_active
    /\ mask_index_png_b64' =
           [l \in LayerIds |->
               IF HasLayer(l) /\ DOMAIN mask[l] # {}
               THEN qimage_to_png_base64(mask[l])
               ELSE mask_index_png_b64[l]]
    /\ mask_index_png_b64' # mask_index_png_b64
    /\ last_op' = "save_project_json"
    /\ UNCHANGED <<image_path, image_width, image_height, layers, categories, entities,
                   mask, _lut_rgba, render_vars, selection_vars, tool_vars, stroke_vars,
                   undo_stack, ids, history_vars, call_vars>>

(***************************************************************************)
(* SpecRender: strokes with the brush on up to MaxLayers layers, undo and  *)
(* redo between strokes, layer selection and deletion at any time, layer   *)
(* and category creation between strokes, and the flush timer.             *)
(***************************************************************************)
SetBrush == set_tool("brush")

NextRender ==
    \/ PointerDown
    \/ PointerMove
    \/ PointerUp
    \/ UndoIdle
    \/ RedoIdle
    \/ SetBrush
    \/ SelectLayer
    \/ AddLayerIdle
    \/ delete_layer
    \/ AddCategoryIdle
    \/ _flush_timer_timeout

SpecRender == Init /\ [][NextRender]_vars

(***************************************************************************)
(* SpecImport: one stroke with the brush, undo and redo, layer selection   *)
(* and creation, the flush timer, saving, image import and the load of a   *)
(* project file with one layer and one category.                           *)
(***************************************************************************)
InitImport ==
    /\ InitMachine
    /\ call = [fn |-> "dict_to_project",
               categories |-> <<[id |-> 1, index |-> NoneId, color |-> DefaultColor]>>]
    /\ ret = NoRet

NextImport ==
    \/ FirstPointerDown
    \/ PointerUp
    \/ UndoIdle
    \/ RedoIdle
    \/ SetBrush
    \/ SelectLayer
    \/ AddLayerIdle
    \/ AddCategoryIdle
    \/ _flush_timer_timeout
    \/ ImportImage
    \/ save_project_json
    \/ load_project_json

SpecImport == InitImport /\ [][NextImport]_vars

(***************************************************************************)
(* Properties of the throttled pushes (SpecRender).                        *)
(***************************************************************************)
\* The event loop delivers the timeout of a started timer.
SpecRenderFair == SpecRender /\ WF_vars(_flush_timer_timeout)

\* The item of the layer holds the pixels of the layer's overlay image.
Pushed(l) ==
    /\ layer_overlay_items[l] # NoItem
    /\ layer_overlay_items[l].pixmap = overlay_rgba_img[l]

\* While a layer is pending, the timer is active.
C22_TimerArmed == _pending_layers # {} => _flush_timer

\* A layer of the project that has an item and is not pending shows its
\* last recomposite.
C22_ShownWhenNotPending ==
    \A l \in LayerIds :
        (HasLayer(l) /\ l \notin _pending_layers /\ layer_overlay_items[l] # NoItem)
            => Pushed(l)

\* A pending entry ends with a push of the layer, unless the layer has left
\* the project: no step, forced flush or tick, drops the entry of a layer
\* that it does not push.
C22_EntryKept ==
    \A l \in LayerIds :
        (l \in _pending_layers /\ l \notin _pending_layers')
            => (~HasLayer(l))' \/ Pushed(l)'

\* C22: whenever a recomposite has put a layer in the pending set the flush
\* timer is active, so with the timeout delivered the layer's overlay is
\* eventually pushed to its item with the content of its last recomposite
\* (by the tick or by a forced flush before it), unless the layer is removed
\* first; a forced flush in between loses no pending entry.
C22_AtLeastOncePush ==
    /\ []C22_TimerArmed
    /\ []C22_ShownWhenNotPending
    /\ [][C22_EntryKept]_vars
    /\ \A l \in LayerIds : (l \in _pending_layers) ~> (l \notin _pending_layers)

\* The tick has pushed the painted overlay of layer 1 after layer 2 was
\* selected, and so force-flushed, while layer 1 was pending.
C22_Witness ==
    /\ last_op = "_flush_pending_pixmaps"
    /\ current_layer_id = 2
    /\ HasLayer(1)
    /\ Pushed(1)
    /\ \E q \in DOMAIN overlay_rgba_img[1].px : overlay_rgba_img[1].px[q] # Transparent
    /\ undo_stack.index = 0

\* A step of the timer's slot with a non-empty pending set.
FlushTick == _flush_timer /\ _pending_layers # {} /\ last_op' = "_flush_pending_pixmaps"

\* A step that paints a dab: the first dab of a stroke, or a segment.
DabStep == last_op' \in {"on_stroke_started", "on_stroke_moved"} /\ mask' # mask

C23_FlushStep ==
    /\ FlushTick =>
          /\ \A l \in _pending_layers : HasLayer(l) => Pushed(l)'
          /\ _pending_layers' = {}
          /\ \A l \in LayerIds : _pending_rects'[l] = NoRect
    /\ DabStep =>
          \E l \in LayerIds :
              /\ mask'[l] # mask[l]
              /\ l \in _pending_layers'
              /\ _pending_rects'[l] # NoRect
              /\ _flush_timer'

\* C23: a flush tick with a non-empty pending set pushes the overlay of
\* every pending layer that is still in the project and leaves the pending
\* set and the pending rects empty; a dab painted after it puts its layer in
\* the pending set again, with the timer active.
C23_FlushTick == [][C23_FlushStep]_vars

\* A tick has pushed two pending layers, both painted in one stroke during
\* which the selected layer changed; the timer is inactive.
C23_Witness ==
    /\ last_op = "_flush_pending_pixmaps"
    /\ ~_flush_timer
    /\ _pending_layers = {}
    /\ _stroke_active
    /\ \A l \in LayerIds :
          /\ HasLayer(l)
          /\ Pushed(l)
          /\ \E q \in DOMAIN layer_overlay_items[l].pixmap.px :
                layer_overlay_items[l].pixmap.px[q] # Transparent

\* After a tick that emptied the pending set a dab has put its layer in it
\* again and started the timer.
C23_WitnessRearmed ==
    /\ last_op = "on_stroke_moved"
    /\ _flush_timer
    /\ _pending_layers = {current_layer_id}
    /\ layer_overlay_items[current_layer_id].pixmap # overlay_rgba_img[current_layer_id]
    /\ \E q \in DOMAIN layer_overlay_items[current_layer_id].pixmap.px :
          layer_overlay_items[current_layer_id].pixmap.px[q] # Transparent

StepCommand ==
    IF last_op' = "undo" /\ undo_stack'.index = undo_stack.index - 1
    THEN undo_stack.cmds[undo_stack.index]
    ELSE IF last_op' = "redo" /\ undo_stack'.index = undo_stack.index + 1
    THEN undo_stack.cmds[undo_stack.index + 1]
    ELSE NoCommand

StepTiles == IF last_op' = "undo" THEN StepCommand.tiles_before ELSE StepCommand.tiles_after

InSomeTile(cmd, q) == \E key \in DOMAIN cmd.tiles_rect : InRect(q, cmd.tiles_rect[key])

C25_UndoStep ==
    StepCommand # NoCommand =>
        IF HasLayer(StepCommand.layer_id)
        THEN \A key \in DOMAIN StepCommand.tiles_rect :
                \A q \in RectPixels(StepCommand.tiles_rect[key]) :
                    mask'[StepCommand.layer_id][q] =
                        TileByte(StepTiles[key], StepCommand.tiles_rect[key], q)
        ELSE UNCHANGED <<mask, _lut_rgba, render_vars>>

\* C25: undo and redo of a command look its layer up by id when they run;
\* the mask of the layer of that id receives the tiles, and when the project
\* has no layer of that id no mask, overlay image, pending entry or overlay
\* item of any layer changes.
C25_ResolvedById == [][C25_UndoStep]_vars

\* An undo has run on a command whose layer was deleted: the mask the layer
\* had still holds the painted pixels.
C25_Witness ==
    /\ last_op = "undo"
    /\ undo_stack.index < Len(undo_stack.cmds)
    /\ ~HasLayer(undo_stack.cmds[undo_stack.index + 1].layer_id)
    /\ \E q \in Pixels(ImgW, ImgH) :
          mask[undo_stack.cmds[undo_stack.index + 1].layer_id][q] # 0

\* The mask of the layer at the start and at the end of the stroke of the
\* command the step runs.
StepRecorded ==
    IF last_op' = "undo"
    THEN h_undo[undo_stack.index].pre_mask
    ELSE h_undo[undo_stack.index + 1].post_mask

C26_UndoStep ==
    (StepCommand # NoCommand /\ HasLayer(StepCommand.layer_id)) =>
        /\ \A l \in LayerIds \ {StepCommand.layer_id} : mask'[l] = mask[l]
        /\ \A q \in Pixels(ImgW, ImgH) :
              mask'[StepCommand.layer_id][q] =
                  IF InSomeTile(StepCommand, q)
                  THEN StepRecorded[q]
                  ELSE mask[StepCommand.layer_id][q]

\* C26: undo and redo of a stroke recorded on layer L change only the mask
\* of L, and only inside the command's tiles; the bytes the tiles receive
\* are those L held at the start (undo) or at the end (redo) of that stroke,
\* whatever was painted on other layers since.
C26_OnlyItsLayer == [][C26_UndoStep]_vars

\* Strokes were recorded on layer 1 and then on layer 2, and the command of
\* layer 2 is undone: layer 2 is blank again and layer 1 holds its pixels.
C26_Witness ==
    /\ last_op = "undo"
    /\ Len(undo_stack.cmds) = 2
    /\ undo_stack.index = 1
    /\ undo_stack.cmds[1].layer_id = 1
    /\ undo_stack.cmds[2].layer_id = 2
    /\ HasLayer(1) /\ HasLayer(2)
    /\ mask[2] = BlankMask(ImgW, ImgH)
    /\ \E q \in Pixels(ImgW, ImgH) : mask[1][q] # 0

\* An import step that changes the dimensions of the image.
ResizingImport ==
    /\ last_op' = "import_image"
    /\ <<image_width', image_height'>> # <<image_width, image_height>>

C27_ImportStep ==
    ResizingImport =>
        \A l \in LayerIds :
            HasLayer(l) => mask'[l] = BlankMask(image_width', image_height')

\* C27: after an import of an image of other dimensions the mask of every
\* layer has the new width and height and every byte of it is 0, whatever
\* the mask and the stored encoded mask of the layer held before.
C27_ImportBlanksMasks == [][C27_ImportStep]_vars

\* An import has changed the dimensions and a layer's mask holds painted
\* bytes: those of the mask stored by the last save, which has the new size.
C27_Witness ==
    /\ last_op = "import_image"
    /\ \E l \in LayerIds :
          /\ HasLayer(l)
          /\ DOMAIN mask[l] = Pixels(image_width, image_height)
          /\ mask_index_png_b64[l] # NoB64
          /\ mask[l] = png_base64_to_qimage(mask_index_png_b64[l]).img
          /\ \E q \in DOMAIN mask[l] : mask[l][q] # 0
    /\ image_width = ImgW

HasImageDims(img) == img.w = image_width /\ img.h = image_height

NoMask == << >>

\* The pattern masks, cut to the narrow image.
NarrowMasks == {[q \in Pixels(SmallW, ImgH) |-> m[q]] : m \in PatternMasks}

EnsureMaskCalls ==
    {[fn |-> "ensure_layer_index_mask", img |-> img, b64 |-> b64, w |-> size[1], h |-> size[2]] :
        img \in {NoMask} \cup PatternMasks \cup NarrowMasks,
        b64 \in {NoB64, NotPng, BadPadding}
                    \cup {qimage_to_png_base64(m) : m \in PatternMasks \cup NarrowMasks},
        size \in ImageSizes}

InitMaskStore ==
    /\ InitMachine
    /\ call \in EnsureMaskCalls
    /\ ret = NoRet

call_ensure_layer_index_mask ==
    /\ call.fn = "ensure_layer_index_mask"
    /\ ret = NoRet
    /\ LET res == ensure_layer_index_mask(call.img, call.b64, call.w, call.h)
       IN  ret' = [fn |-> "ensure_layer_index_mask", raised |-> res.raised, mask |-> res.mask]
    /\ UNCHANGED <<project_vars, render_vars, selection_vars, tool_vars, stroke_vars,
                   undo_stack, ids, last_op, history_vars, call>>

NextMaskStore == call_ensure_layer_index_mask

SpecMaskStore == InitMaskStore /\ [][NextMaskStore]_vars

\* The layer has no runtime mask of the image's size, and its stored mask is
\* text that cannot be decoded, is no image, or is an image of another size.
BadStoredMask ==
    /\ DOMAIN call.img # Pixels(call.w, call.h)
    /\ \/ call.b64 \in {BadPadding, NotPng}
       \/ call.b64.kind = "png" /\ <<call.b64.w, call.b64.h>> # <<call.w, call.h>>

\* C29: ensure_layer_index_mask does not fail on a bad stored mask: when the
\* stored mask cannot be decoded (no base64, or no image), or decodes to an
\* image of other dimensions than the project's, it raises nothing and
\* returns an all-zero mask of the image's width and height.
C29_BlankOnBadData ==
    (ret.fn = "ensure_layer_index_mask" /\ BadStoredMask) =>
        ~ret.raised /\ ret.mask = BlankMask(call.w, call.h)

\* The call has raised on a stored mask that is no base64 text, and the
\* layer is left with the mask of another size it had.
C29_Witness ==
    /\ ret.fn = "ensure_layer_index_mask"
    /\ call.b64 = BadPadding
    /\ ret.raised
    /\ ret.mask = call.img
    /\ DOMAIN call.img = Pixels(SmallW, ImgH)
    /\ call.w = ImgW

(***************************************************************************)
(* The recomposite of a segment (SpecSegment).                             *)
(***************************************************************************)
\* The rect of the dab at point c, and the pixels in the rect of any dab of
\* the segment.
DabRect(c) ==
    LET b == DabBox(SegW, SegH, c[1], c[2], brush_radius)
    IN  QRect(b.x0, b.y0, b.x1 - b.x0 + 1, b.y1 - b.y0 + 1)

InSomeDabRect(q) == \E i \in 1 .. Len(ret.points) : InRect(q, DabRect(ret.points[i]))

\* The bounding rect of the rects of the dabs at points i .. Len(points).
RECURSIVE DabRectsUnited(_)
DabRectsUnited(i) ==
    IF i = Len(ret.points)
    THEN DabRect(ret.points[i])
    ELSE united(DabRect(ret.points[i]), DabRectsUnited(i + 1))

\* C30: after a segment every pixel in the rect of any of its dabs shows the
\* colour of its mask byte as all dabs of the segment left it, and the one
\* recomposite the segment has enqueued is that of the union of the dab
\* rects: the layer is pending with exactly that rect, and the overlay is as
\* it was outside it.
C30_OneRecomposite ==
    ret.fn = "_apply_stroke_segment" =>
        /\ \A q \in Pixels(SegW, SegH) :
              InSomeDabRect(q) =>
                  overlay_rgba_img[1].px[q] = ColorOf(categories[1], mask[1][q])
        /\ _pending_layers = {1}
        /\ _pending_rects[1] = DabRectsUnited(1)
        /\ _flush_timer
        /\ \A q \in Pixels(SegW, SegH) :
              ~InRect(q, DabRectsUnited(1)) => overlay_rgba_img[1].px[q] = Transparent
        /\ layer_overlay_items[1].pixmap.px = [q \in Pixels(SegW, SegH) |-> Transparent]

\* A segment of three dabs or more has been recomposited: a pixel of the
\* union rect that no dab rect holds is transparent, the end points are
\* painted, and a pixel outside the union rect exists.
C30_Witness ==
    /\ ret.fn = "_apply_stroke_segment"
    /\ Len(ret.points) >= 3
    /\ overlay_rgba_img[1].px[ret.points[1]] = DefaultColor
    /\ overlay_rgba_img[1].px[ret.points[Len(ret.points)]] = DefaultColor
    /\ \E q \in Pixels(SegW, SegH) : InRect(q, _pending_rects[1]) /\ ~InSomeDabRect(q)
    /\ \E q \in Pixels(SegW, SegH) : ~InRect(q, _pending_rects[1])

(***************************************************************************)
(* The overlay after undo and redo (SpecRender).                           *)
(***************************************************************************)
C31_UndoStep ==
    (StepCommand # NoCommand /\ HasLayer(StepCommand.layer_id)) =>
        LET lid == StepCommand.layer_id
            dr == clamp_rect_to_image(StepCommand.dirty_rect, image_width, image_height)
        IN  /\ lid \notin _pending_layers'
            /\ _pending_rects'[lid] = NoRect
            /\ layer_overlay_items'[lid] # NoItem
            /\ layer_overlay_items'[lid].pixmap = overlay_rgba_img'[lid]
            /\ \A q \in Pixels(image_width, image_height) :
                  InRect(q, dr) =>
                      layer_overlay_items'[lid].pixmap.px[q] =
                          ColorOf(categories[lid], mask'[lid][q])

\* C31: when undo() or redo() returns, the tiles are in the mask, the
\* layer is not in the pending set and its item shows the overlay, which in
\* the command's dirty rect is composited from the restored mask; no timer
\* tick is needed.
C31_FlushedAtOnce == [][C31_UndoStep]_vars

\* An undo has returned and the timer its recomposite started has not fired:
\* the layer is not pending and its item shows a blank overlay again, with
\* the command still on the stack for redo.
C31_Witness ==
    /\ last_op = "undo"
    /\ _flush_timer
    /\ undo_stack.index = 0
    /\ Len(undo_stack.cmds) = 1
    /\ HasLayer(undo_stack.cmds[1].layer_id)
    /\ undo_stack.cmds[1].layer_id \notin _pending_layers
    /\ layer_overlay_items[undo_stack.cmds[1].layer_id].pixmap.px
           = [q \in Pixels(ImgW, ImgH) |-> Transparent]
    /\ mask[undo_stack.cmds[1].layer_id] = BlankMask(ImgW, ImgH)

(***************************************************************************)
(* SpecPalette: add_category, category selection and delete_category on a  *)
(* layer that holds categories already: up to SmallPalette of them, with    *)
(* any distinct indices of 1 .. SmallPalette in any order, or MaxIndex or   *)
(* MaxIndex - 1 of them.                                                    *)
(***************************************************************************)
SmallPalette == 3

\* The category the layer holds for index i; its id is above the ids of the
\* categories added later.
PaletteCategory(i) == [id |-> MaxCats + i, index |-> i, color |-> DefaultColor]

\* Every index of 1 .. MaxIndex but hole, in ascending order; all of them
\* for hole = 0.
AllIndicesBut(hole) ==
    [k \in 1 .. (IF hole = 0 THEN MaxIndex ELSE MaxIndex - 1) |->
        PaletteCategory(IF hole # 0 /\ k >= hole THEN k + 1 ELSE k)]

PaletteCategories ==
    LET Seqs == UNION {[1 .. n -> 1 .. SmallPalette] : n \in 0 .. SmallPalette}
        Distinct == {f \in Seqs : \A i, j \in DOMAIN f : i # j => f[i] # f[j]}
    IN  {[k \in DOMAIN f |-> PaletteCategory(f[k])] : f \in Distinct}
            \cup {AllIndicesBut(hole) : hole \in {0, 1, SmallPalette, MaxIndex}}

InitPalette ==
    /\ image_path = TRUE
    /\ image_width = ImgW
    /\ image_height = ImgH
    /\ layers = <<1>>
    /\ \E cats \in PaletteCategories :
          /\ categories = [l \in LayerIds |-> IF l = 1 THEN cats ELSE << >>]
          /\ Rendered(show_layer_overlay(
                          [NewProject(ImgW, ImgH) EXCEPT !.categories[1] = cats],
                          NewRenderer(ImgW, ImgH), 1))
    /\ entities = [l \in LayerIds |-> << >>]
    /\ mask_index_png_b64 = [l \in LayerIds |-> NoB64]
    /\ current_layer_id = 1
    /\ current_category_id = NoneId
    /\ current_entity_id = NoneId
    /\ tool_mode = "pan"
    /\ brush_radius = 1
    /\ erase_radius = 1
    /\ erase_mode = "erase_all"
    /\ _stroke_active = FALSE
    /\ _stroke_last = NoPoint
    /\ _stroke_rec = NewRecorder
    /\ undo_stack = [cmds |-> << >>, index |-> 0]
    /\ ids = [layer |-> 1, category |-> 0, entity |-> 0]
    /\ last_op = "init"
    /\ h_start = << >>
    /\ h_undo = << >>
    /\ n_strokes = 0
    /\ n_moves = 0
    /\ call = NoCall
    /\ ret = NoRet

\* The category list selects an added category or one of the first
\* SmallPalette or the last of the categories held from the start.
SelectPaletteCategory ==
    \E c \in (1 .. MaxCats + SmallPalette) \cup {MaxCats + MaxIndex} :
        _on_category_item_changed(c)

NextPalette ==
    \/ add_category
    \/ SelectPaletteCategory
    \/ delete_category

SpecPalette == InitPalette /\ [][NextPalette]_vars

UsedIndices(cats) == {cats[i].index : i \in 1 .. Len(cats)}

\* add_category has appended one category; its index is the smallest of
\* 1 .. MaxIndex that no category of the layer had.
C32_AddStep ==
    last_op' = "add_category" =>
        /\ Len(categories'[1]) = Len(categories[1]) + 1
        /\ SubSeq(categories'[1], 1, Len(categories[1])) = categories[1]
        /\ LET idx == categories'[1][Len(categories'[1])].index
           IN  /\ idx \in (1 .. MaxIndex) \ UsedIndices(categories[1])
               /\ \A i \in 1 .. idx - 1 : i \in UsedIndices(categories[1])

\* delete_category has taken the index of the deleted category out of use.
C32_DeleteStep ==
    (last_op' \in {"delete_category", "delete_category_used"}
         /\ Len(categories'[1]) < Len(categories[1])) =>
        \E i \in UsedIndices(categories[1]) :
            UsedIndices(categories'[1]) = UsedIndices(categories[1]) \ {i}

\* While category ids are left, add_category is refused exactly when every
\* index of 1 .. MaxIndex is in use.
C32_RefusedWhenFull ==
    ids.category < MaxCats =>
        ((ENABLED add_category) <=> UsedIndices(categories[1]) # 1 .. MaxIndex)

\* C32: add_category assigns the smallest index of 1..255 that no category
\* of the layer uses, so the index of a deleted category can be assigned
\* again, and a new category is refused, the layer unchanged, only when all
\* 255 indices are in use.
C32_IndexReuse ==
    /\ []C32_RefusedWhenFull
    /\ [][C32_AddStep /\ C32_DeleteStep]_vars

\* The second category added has index 1 and is the only one of the layer:
\* whatever held index 1 before it was deleted.
C32_Witness ==
    /\ last_op = "add_category"
    /\ Len(categories[1]) = 1
    /\ categories[1][1].id = MaxCats
    /\ categories[1][1].index = 1
    /\ ids.category = MaxCats

\* Index MaxIndex, freed by a deletion on a full layer, has been assigned
\* again.
C32_WitnessFull ==
    /\ last_op = "add_category"
    /\ Len(categories[1]) = MaxIndex
    /\ categories[1][MaxIndex].id = 1
    /\ categories[1][MaxIndex].index = MaxIndex

(***************************************************************************)
(* SpecDisplay: strokes of the brush, undo and redo, category additions,   *)
(* selections and deletions, layer additions and switches, each handler    *)
(* started while no stroke is in progress.                                 *)
(***************************************************************************)
DeleteCategoryIdle == ~_stroke_active /\ delete_category

NextDisplay ==
    \/ PointerDown
    \/ PointerMove
    \/ PointerUp
    \/ UndoIdle
    \/ RedoIdle
    \/ SetBrush
    \/ SelectLayer
    \/ AddLayerIdle
    \/ SelectCategory
    \/ AddCategoryIdle
    \/ DeleteCategoryIdle

SpecDisplay == Init /\ [][NextDisplay]_vars

\* The overlay image of the current layer holds at every pixel of the image
\* the colour the layer's categories give to the mask byte of the pixel.
ActiveOverlayAgrees ==
    (current_layer_id # NoneId /\ HasLayer(current_layer_id)) =>
        LET l == current_layer_id
        IN  /\ overlay_rgba_img[l] # NoImage
            /\ \A q \in Pixels(image_width, image_height) :
                  overlay_rgba_img[l].px[q] = ColorOf(categories[l], mask[l][q])

\* C33: after every completed stroke segment, stroke end, undo, redo,
\* category addition or deletion and layer switch, in any sequence of them,
\* the overlay buffer of the active layer agrees with its mask and LUT at
\* every pixel of the image: overlay[p] = lut[mask[p]].
C33_OverlayAgrees == ActiveOverlayAgrees

\* add_category has given index 1 to a new category while pixels restored
\* by a redo hold byte 1: the overlay is transparent where the mask byte
\* now denotes the new category.
C33_Witness ==
    /\ last_op = "add_category"
    /\ ~_stroke_active
    /\ current_layer_id = 1
    /\ Len(categories[1]) = 1
    /\ categories[1][1].index = 1
    /\ categories[1][1].color # Transparent
    /\ \E q \in Pixels(ImgW, ImgH) :
          /\ mask[1][q] = 1
          /\ overlay_rgba_img[1].px[q] = Transparent
          /\ layer_overlay_items[1].visible
          /\ layer_overlay_items[1].pixmap.px[q] = Transparent

(***************************************************************************)
(* The undo stack after a change of the image dimensions (SpecImport).     *)
(***************************************************************************)
InsideImage(rect) ==
    /\ left(rect) >= 0
    /\ top(rect) >= 0
    /\ right(rect) < image_width
    /\ bottom(rect) < image_height

\* C34: every tile rectangle of every command on the undo stack, to be
\* undone or redone, lies inside the current image bounds, also after
\* import_image or load_project_json has changed the image dimensions, so
\* undo and redo write nowhere outside the mask.
C34_TilesInsideImage ==
    \A i \in 1 .. Len(undo_stack.cmds) :
        \A key \in DOMAIN undo_stack.cmds[i].tiles_rect :
            InsideImage(undo_stack.cmds[i].tiles_rect[key])

\* After an import to a narrower image, undo has applied a command of the
\* current layer one of whose tile rectangles lies wholly beyond the right
\* edge of the mask.
C34_Witness ==
    /\ last_op = "undo"
    /\ image_width = SmallW
    /\ undo_stack.index = 0
    /\ Len(undo_stack.cmds) = 1
    /\ HasLayer(undo_stack.cmds[1].layer_id)
    /\ DOMAIN mask[undo_stack.cmds[1].layer_id] = Pixels(SmallW, ImgH)
    /\ \E key \in DOMAIN undo_stack.cmds[1].tiles_rect :
          left(undo_stack.cmds[1].tiles_rect[key]) >= image_width

====
